---- MODULE Spec2Model ----
(***************************************************************************)
(* A model of sqlalchemy/sql/traversals.py: cache-key generation,         *)
(* structural comparison, internal copying and child extraction over a    *)
(* heap of expression nodes.                                               *)
(*                                                                         *)
(* A node is an object of the heap, named by its position (its identity). *)
(* Its class gives its __visit_name__ and its _traverse_internals; every  *)
(* attribute holds a value wrapped as [none, v]: none = TRUE is Python's   *)
(* None.  An unordered set is held as the duplicate-free sequence in which *)
(* that set object iterates.                                               *)
(***************************************************************************)
EXTENDS Integers, Sequences, FiniteSets, TLC

VARIABLES heap, ret

vars == <<heap, ret>>

(*************************** bounds of the model ***************************)
MaxNew == 2
MaxLen == 2
RecursionLimit == 3
MaxIds == 4

(******************************* values ************************************)
NoneVal == [none |-> TRUE, v |-> 0]

Some(x) == [none |-> FALSE, v |-> x]

Range(s) == {s[i] : i \in DOMAIN s}

\* the duplicate-free sequences over S of length at most n
RECURSIVE DistinctSeqs(_, _)
DistinctSeqs(S, n) ==
  IF n = 0 THEN {<<>>}
  ELSE {<<>>} \cup
       UNION {{<<x>> \o t : t \in DistinctSeqs(S \ {x}, n - 1)} : x \in S}

\* the sequences over S of length at most n
RECURSIVE SeqsUpTo(_, _)
SeqsUpTo(S, n) ==
  IF n = 0 THEN {<<>>}
  ELSE {<<>>} \cup {<<x>> \o t : x \in S, t \in SeqsUpTo(S, n - 1)}

(************************ operators (sql/operators.py) *********************)
Operators == {"add", "sub", "and_", "comma_op"}

is_commutative(op) == op \in {"add"}

is_associative(op) == op \in {"add", "and_"}

(********************* node classes and their schemas **********************)
Classes ==
  {"column", "grouping", "binary", "clauselist", "cte", "opaque", "tuple",
   "values", "select", "mapping", "joined", "update", "insert",
   "annotated_column", "text_column", "quoted_column", "bare", "bindparam",
   "statement", "hinted", "query"}

traverse_internals(cls) ==
  CASE cls = "column" -> << <<"name", "dp_string">> >>
    [] cls = "grouping" -> << <<"element", "dp_clauseelement">> >>
    [] cls = "binary" -> << <<"left", "dp_clauseelement">>,
                            <<"right", "dp_clauseelement">>,
                            <<"operator", "dp_operator">>,
                            <<"negate", "dp_operator">> >>
    [] cls = "clauselist" -> << <<"clauses", "dp_clauseelement_list">>,
                                <<"operator", "dp_operator">> >>
    [] cls = "cte" -> << <<"restates", "dp_clauseelement_unordered_set">> >>
    [] cls = "opaque" -> << <<"element", "dp_clauseelement">>,
                            <<"payload", "dp_unknown_structure">> >>
    [] cls = "tuple" -> << <<"clauses", "dp_clauseelement_tuple">> >>
    [] cls = "values" -> << <<"_data", "dp_clauseelement_tuples">> >>
    [] cls = "select" -> << <<"froms", "dp_fromclause_ordered_set">> >>
    [] cls = "mapping" -> << <<"named", "dp_string_clauseelement_dict">> >>
    [] cls = "joined" -> << <<"_setup_joins", "dp_setup_join_tuple">> >>
    [] cls = "update" -> << <<"_ordered_values", "dp_dml_ordered_values">> >>
    [] cls = "insert" -> << <<"_values", "dp_dml_values">> >>
    [] cls = "annotated_column" -> << <<"name", "dp_string">>,
                                      <<"_annotations", "dp_annotations_key">> >>
    [] cls = "text_column" -> << <<"text", "dp_string">> >>
    [] cls = "quoted_column" -> << <<"name", "dp_operator">> >>
    [] cls = "hinted" -> << <<"_hints", "dp_string_list">>,
                            <<"_prefixes", "dp_string_list">> >>
    [] cls = "query" -> << <<"_setup_joins", "dp_setup_join_tuple">>,
                           <<"_legacy_setup_joins", "dp_setup_join_tuple">> >>
    [] cls = "statement" -> << <<"_propagate_attrs", "dp_propagate_attrs">> >>
    [] cls = "bindparam" -> << <<"key", "dp_anon_name">>,
                               <<"type", "dp_type">>,
                               <<"callable", "dp_plain_obj">>,
                               <<"value", "dp_plain_obj">> >>

\* hasattr(self, "_traverse_internals"): a class may declare no schema
has_traverse_internals(cls) == cls # "bare"

Nodes == DOMAIN heap

ClassOf(n) == heap[n].cls

Attr(n, attrname) == heap[n].at[attrname]

(****************************** anon_map ***********************************)
\* str(index): the decimal string of a natural number
str(i) == ToString(i)

RECURSIVE Digits(_)
Digits(i) == IF i < 10 THEN <<i>> ELSE Digits(i \div 10) \o <<i % 10>>

\* Python's order on strings, for two decimal strings str(i) < str(j)
RECURSIVE LexLess(_, _)
LexLess(s, t) ==
  IF t = <<>> THEN FALSE
  ELSE IF s = <<>> THEN TRUE
  ELSE IF Head(s) # Head(t) THEN Head(s) < Head(t)
  ELSE LexLess(Tail(s), Tail(t))

StrLess(i, j) == LexLess(Digits(i), Digits(j))

\* anon_map(): an empty dict with index 0.  anon holds, per identity key,
\* the index whose decimal string is the value; nocache is the NO_CACHE
\* entry; calls records each _gen_cache_key call and what it returned.
anon_map == [anon |-> <<>>, index |-> 0, nocache |-> FALSE, calls |-> <<>>]

\* anon_map[NO_CACHE] = True
SetNoCache(st) == [st EXCEPT !.nocache = TRUE]

\* anon_map.__missing__ that leaves the index as it is
anon_map_missing_keeps_index(st, key) ==
  [st EXCEPT !.anon = (key :> st.index) @@ @]

\* anon_map.__missing__(key): self[key] = str(self.index); self.index += 1
anon_map_missing(st, key) ==
  [st EXCEPT !.anon = (key :> st.index) @@ @, !.index = @ + 1]

\* anon_map[key]: the dict's own lookup, __missing__ for a key not in it
anon_map_getitem(st, key) ==
  IF key \in DOMAIN st.anon THEN st ELSE anon_map_missing(st, key)

\* the first lines of _gen_cache_key for an object of identity idself
anon_map_inlined(st, idself) ==
  IF idself \in DOMAIN st.anon THEN st
  ELSE [st EXCEPT !.anon = (idself :> st.index) @@ @, !.index = @ + 1]

\* the value the map holds for a key
anon_map_value(st, key) == str(st.anon[key])

(************************ cache key generation *****************************)
\* A key tuple is held as the sequence of its elements, each a string; a
\* nested tuple is spliced in between "(" and ")".
Wrap(k) == <<"(">> \o k \o <<")">>

\* a child's key as one element of the enclosing tuple (None when the child
\* returned None)
Embed(r) == IF r.none THEN <<"None">> ELSE Wrap(r.k)

ClsTok(n) == "<class " \o ClassOf(n) \o ">"

\* Python truth value of a non-None attribute value of the given kind
\* every value taken for an empty one
Truthy_never(kind, v) == FALSE

Truthy(kind, v) ==
  CASE kind \in {"dp_string", "dp_unknown_structure"} -> v # ""
    [] kind \in {"dp_clauseelement_list", "dp_clauseelement_tuple",
                 "dp_clauseelement_unordered_set",
                 "dp_fromclause_ordered_set", "dp_string_list",
                 "dp_setup_join_tuple"} -> v # <<>>
    [] OTHER -> TRUE

\* sorted(cache_keys): every key starts with its own id string, and the ids
\* of distinct elements differ, so the order is the order of those strings.
\* ks is a sequence of [idx, k]; insertion into a sorted sequence.
RECURSIVE InsertSorted(_, _)
InsertSorted(e, srt) ==
  IF srt = <<>> THEN <<e>>
  ELSE IF StrLess(e.idx, Head(srt).idx) THEN <<e>> \o srt
  ELSE <<Head(srt)>> \o InsertSorted(e, Tail(srt))

RECURSIVE sorted(_)
sorted(ks) ==
  IF ks = <<>> THEN <<>> ELSE InsertSorted(ks[Len(ks)], sorted(SubSeq(ks, 1, Len(ks) - 1)))

RECURSIVE Concat(_)
Concat(ss) == IF ss = <<>> THEN <<>> ELSE Head(ss) \o Concat(Tail(ss))

RECURSIVE gen_cache_key(_, _)
RECURSIVE KeyOfEach(_, _, _)
RECURSIVE KeyAttrs(_, _, _, _)
RECURSIVE KeyOfJoins(_, _, _, _)

\* [elem._gen_cache_key(anon_map, bindparams) for elem in obj]
KeyOfEach(elems, acc, st) ==
  IF elems = <<>> THEN [keys |-> acc, st |-> st]
  ELSE LET r == gen_cache_key(Head(elems), st)
       IN KeyOfEach(Tail(elems), Append(acc, r), r.st)

\* _CacheKey.visit_clauseelement_unordered_set
CacheKey_visit_clauseelement_unordered_set(attrname, obj, st) ==
  IF obj = <<>> THEN [frag |-> <<>>, st |-> st]
  ELSE LET rs == KeyOfEach(obj, <<>>, st)
           cache_keys == [i \in DOMAIN obj |->
                            [idx |-> rs.st.anon[obj[i]], k |-> rs.keys[i]]]
           srt == sorted(cache_keys)
       IN [frag |-> <<attrname>> \o
                    Wrap(Concat([i \in DOMAIN srt |-> Embed(srt[i].k)])),
           st |-> rs.st]

\* _CacheKey.visit_unknown_structure
CacheKey_visit_unknown_structure(attrname, obj, st) ==
  [frag |-> <<>>, st |-> SetNoCache(st)]

\* _CacheKey.visit_string_list: tuple(obj)
CacheKey_visit_string_list(attrname, obj, st) == [frag |-> obj, st |-> st]

\* is_legacy = "legacy" in attrname
is_legacy(attrname) == attrname \in {"_legacy_setup_joins"}

\* one slot of a join-setup tuple: a string as it is in a legacy attribute,
\* None for None, the key of a node; slot is [t, n, s]
KeyOfSlot(slot, legacy, st) ==
  CASE slot.t = "none" -> [e |-> <<"None">>, st |-> st]
    [] slot.t = "str" /\ legacy -> [e |-> <<slot.s>>, st |-> st]
    [] slot.t = "node" ->
         LET r == gen_cache_key(slot.n, st)
         IN [e |-> Embed(r), st |-> r.st]

\* the generator of visit_setup_join_tuple over (target, onclause, from_,
\* flags) in obj; the flags are held sorted
KeyOfJoins(obj, acc, legacy, st) ==
  IF obj = <<>> THEN [frag |-> acc, st |-> st]
  ELSE LET target == KeyOfSlot(Head(obj).target, legacy, st)
           onclause == KeyOfSlot(Head(obj).onclause, legacy, target.st)
           from_ == KeyOfSlot(Head(obj).from_, FALSE, onclause.st)
       IN KeyOfJoins(Tail(obj),
                     acc \o Wrap(target.e \o onclause.e \o from_.e
                                 \o Wrap(<<Head(obj).flags>>)),
                     legacy, from_.st)

\* _CacheKey.visit_setup_join_tuple
CacheKey_visit_setup_join_tuple(attrname, obj, st) ==
  KeyOfJoins(obj, <<>>, is_legacy(attrname), st)

\* one (attrname, obj, meth) step of the loop of _gen_cache_key
KeyAttr(n, attrname, kind, st) ==
  LET obj == Attr(n, attrname)
  IN IF obj.none THEN [frag |-> <<>>, st |-> st]
     ELSE IF kind = "dp_clauseelement"
     THEN LET r == gen_cache_key(obj.v, st)
          IN [frag |-> <<attrname>> \o Embed(r), st |-> r.st]
     ELSE IF ~Truthy(kind, obj.v) THEN [frag |-> <<>>, st |-> st]
     ELSE IF kind \in {"dp_string", "dp_operator"}
     THEN [frag |-> <<attrname, obj.v>>, st |-> st]
     ELSE IF kind \in {"dp_clauseelement_list", "dp_clauseelement_tuple",
                       "dp_fromclause_ordered_set"}
     THEN LET rs == KeyOfEach(obj.v, <<>>, st)
          IN [frag |-> <<attrname>> \o
                       Wrap(Concat([i \in DOMAIN rs.keys |-> Embed(rs.keys[i])])),
              st |-> rs.st]
     ELSE CASE kind = "dp_clauseelement_unordered_set" ->
                 CacheKey_visit_clauseelement_unordered_set(attrname, obj.v, st)
            [] kind = "dp_unknown_structure" ->
                 CacheKey_visit_unknown_structure(attrname, obj.v, st)
            [] kind = "dp_string_list" ->
                 CacheKey_visit_string_list(attrname, obj.v, st)
            [] kind = "dp_setup_join_tuple" ->
                 CacheKey_visit_setup_join_tuple(attrname, obj.v, st)

\* the loop of _gen_cache_key over the dispatcher's attributes, from the
\* i-th on; result is the tuple built so far
KeyAttrs(n, i, result, st) ==
  LET ti == traverse_internals(ClassOf(n))
  IN IF i > Len(ti) THEN [none |-> FALSE, k |-> result, st |-> st]
     ELSE LET r == KeyAttr(n, ti[i][1], ti[i][2], st)
          IN KeyAttrs(n, i + 1, result \o r.frag, r.st)

\* the record of one _gen_cache_key call: the node, whether this was its first
\* occurrence, how many calls had returned when it was entered, what it returned
Returned(n, first, entered, r) ==
  [r EXCEPT !.st.calls = Append(@, [node |-> n, first |-> first,
                                     entered |-> entered,
                                     none |-> r.none, k |-> r.k])]

\* _gen_cache_key without the "idself in anon_map" shortcut
gen_cache_key_walks_again(n, st) ==
  LET id_ == str(st.index)
      st1 == [st EXCEPT !.anon = (n :> st.index) @@ @, !.index = @ + 1]
  IN Returned(n, n \notin DOMAIN st.anon, Len(st.calls),
              KeyAttrs(n, 1, <<id_, ClsTok(n)>>, st1))

\* HasCacheKey._gen_cache_key
gen_cache_key(n, st) ==
  IF n \in DOMAIN st.anon
  THEN Returned(n, FALSE, Len(st.calls),
                [none |-> FALSE, k |-> <<str(st.anon[n]), ClsTok(n)>>, st |-> st])
  ELSE LET id_ == str(st.index)
           st1 == [st EXCEPT !.anon = (n :> st.index) @@ @, !.index = @ + 1]
       IN Returned(n, TRUE, Len(st.calls),
                   KeyAttrs(n, 1, <<id_, ClsTok(n)>>, st1))

\* HasCacheKey._generate_cache_key: None (none = TRUE) or CacheKey(key, ...)
generate_cache_key(n) ==
  LET r == gen_cache_key(n, anon_map)
  IN [op |-> "generate_cache_key", node |-> n,
      none |-> r.st.nocache, key |-> r.k, calls |-> r.st.calls]

(************************ structural comparison ****************************)
\* A comparison ends "True" or "False" or by raising; the result of a call
\* is the set of the ways it can end, over the orders in which the sets
\* built during the comparison may iterate.
Raised == {"TypeError", "NotImplementedError", "RecursionError", "AttributeError"}

\* __visit_name__: the subclasses of the column class keep its visit name
visit_name(cls) ==
  IF cls \in {"annotated_column", "text_column", "quoted_column"} THEN "column"
  ELSE cls

\* the keyword arguments of compare(); equivalents maps a node to a set of
\* nodes, () when not given; compare_keys and compare_values are True when
\* not given
NoKw ==
  [use_proxies |-> FALSE, equivalents |-> <<>>, compare_annotations |-> FALSE,
   compare_keys |-> TRUE, compare_values |-> TRUE]

\* ColumnElement.proxy_set: the column itself and the lineage it was made from
proxy_set(n) ==
  {n} \cup (IF "proxy_set" \in DOMAIN heap[n].at THEN heap[n].at.proxy_set.v ELSE {})

\* ColumnElement.shares_lineage(othercolumn)
shares_lineage(n, othercolumn) == proxy_set(n) \cap proxy_set(othercolumn) # {}

\* hash(node): the hash of an object is taken from its identity
hash(n) == n

\* a node reference held by an attribute, 0 for None
NodeOrNone(val) == IF val.none THEN 0 ELSE val.v

\* == (or "is") on two attribute values holding strings or operators
ScalarEq(a, b) == a.none = b.none /\ (a.none \/ a.v = b.v)

\* zip_longest(left, right, fillvalue=None) over two sequences of nodes
zip_longest(left, right) ==
  LET n == IF Len(left) > Len(right) THEN Len(left) ELSE Len(right)
  IN [i \in 1..n |-> <<IF i <= Len(left) THEN left[i] ELSE 0,
                       IF i <= Len(right) THEN right[i] ELSE 0>>]

\* the outcomes of "A and B" and of "A or B", B evaluated only when needed
AndThen(A, B) == (A \ {"True"}) \cup (IF "True" \in A THEN B ELSE {})

OrElse(A, B) == (A \ {"False"}) \cup (IF "False" \in A THEN B ELSE {})

\* one pass of the loop body of compare ends the comparison (term is the
\* outcome) or goes on (term = "go") having appended push to the stack
Go(push) == [term |-> "go", push |-> push]

\* the same for the whole loop over the attributes: seen lists the names
\* that reached the None tests and the dispatch, in the order they did
Ended(s, seen) == [term |-> s.term, push |-> s.push, seen |-> seen]

Stop(outcome) == [term |-> outcome, push |-> <<>>]

\* a visit method's boolean or raised result, as the loop of compare reads it
FromOutcomes(O) == {IF o = "True" THEN Go(<<>>) ELSE Stop(o) : o \in O}

\* what a slot of a join-setup tuple or a key of a values collection holds:
\* nothing, a node, a plain string, or the object that a clone function making
\* fresh objects returned for a plain string
NoneTV == [t |-> "none", n |-> 0, s |-> ""]

NodeTV(x) == [t |-> "node", n |-> x, s |-> ""]

StrTV(x) == [t |-> "str", n |-> 0, s |-> x]

ClonedTV(x) == [t |-> "cloned", n |-> 0, s |-> x]

\* hasattr(key, "__clause_element__")
has_clause_element(tv) == tv.t = "node"

RECURSIVE Strategy_compare(_, _, _, _)
RECURSIVE OrderedValuesLoop(_, _, _, _, _)
RECURSIVE Greedy(_, _, _, _, _)
RECURSIVE Scan(_, _, _, _, _, _)
RECURSIVE AttrLoop(_, _, _, _, _, _, _, _)

\* TraversalComparatorStrategy.__init__: the stack and the cache of a new
\* comparator
Comparator == [stack |-> <<>>, cache |-> {}]

\* TraversalComparatorStrategy.compare_inner: a new comparator, one level
\* deeper in the interpreter's stack; d is the depth still available
compare_inner(obj1, obj2, kw, d) ==
  IF d = 0 THEN {"RecursionError"}
  ELSE Strategy_compare(Append(Comparator.stack, <<obj1, obj2>>),
                        Comparator.cache, kw, d - 1)

\* the outer loop of _compare_unordered_sequences: rest is what is left of
\* seq1, completed the members of seq2 already taken; c = [len1, seq2]
Greedy(rest, completed, c, kw, d) ==
  IF rest = <<>>
  THEN {IF Cardinality(completed) = c.len1 /\ c.len1 = Len(c.seq2)
        THEN "True" ELSE "False"}
  ELSE Scan(Head(rest), Range(c.seq2) \ completed,
            [rest |-> Tail(rest), completed |-> completed], c, kw, d)

\* for other_clause in set(seq2).difference(completed), in any order;
\* remaining are the candidates not tried yet
Scan(clause, remaining, g, c, kw, d) ==
  IF remaining = {} THEN Greedy(g.rest, g.completed, c, kw, d)
  ELSE UNION {
         UNION {
           IF out = "True"
           THEN Greedy(g.rest, g.completed \cup {other_clause}, c, kw, d)
           ELSE IF out = "False"
           THEN Scan(clause, remaining \ {other_clause}, g, c, kw, d)
           ELSE {out}
           : out \in compare_inner(clause, other_clause, kw, d)}
         : other_clause \in remaining}

\* TraversalComparatorStrategy._compare_unordered_sequences
compare_unordered_sequences(seq1, seq2, kw, d) ==
  IF seq1.none THEN {IF seq2.none THEN "True" ELSE "False"}
  ELSE IF seq2.none THEN {"TypeError"}
  ELSE Greedy(seq1.v, {}, [len1 |-> Len(seq1.v), seq2 |-> seq2.v], kw, d)

\* TraversalComparatorStrategy.compare_clauselist: the outcomes on which the
\* comparison stops, or the attribute names it has compared
compare_clauselist(left, right, kw, d) ==
  IF ScalarEq(Attr(left, "operator"), Attr(right, "operator"))
  THEN IF is_associative(Attr(left, "operator").v)
       THEN {IF o = "True"
             THEN [term |-> "go", compared |-> {"operator", "clauses"}]
             ELSE [term |-> IF o = "False" THEN "False" ELSE o, compared |-> {}]
             : o \in compare_unordered_sequences(Attr(left, "clauses"),
                                                 Attr(right, "clauses"), kw, d)}
       ELSE {[term |-> "go", compared |-> {"operator"}]}
  ELSE {[term |-> "False", compared |-> {}]}

\* compare_binary without the commutative pairing of the operands
compare_binary_positional(left, right, kw, d) ==
  IF ScalarEq(Attr(left, "operator"), Attr(right, "operator"))
  THEN {[term |-> "go", compared |-> {"operator", "negate"}]}
  ELSE {[term |-> "False", compared |-> {}]}

\* TraversalComparatorStrategy.compare_binary
compare_binary(left, right, kw, d) ==
  IF ScalarEq(Attr(left, "operator"), Attr(right, "operator"))
  THEN IF is_commutative(Attr(left, "operator").v)
       THEN LET ll == NodeOrNone(Attr(left, "left"))
                lr == NodeOrNone(Attr(left, "right"))
                rl == NodeOrNone(Attr(right, "left"))
                rr == NodeOrNone(Attr(right, "right"))
            IN {IF o = "True"
                THEN [term |-> "go",
                      compared |-> {"operator", "negate", "left", "right"}]
                ELSE [term |-> o, compared |-> {}]
                : o \in OrElse(AndThen(compare_inner(ll, rl, kw, d),
                                       compare_inner(lr, rr, kw, d)),
                               AndThen(compare_inner(ll, rr, kw, d),
                                       compare_inner(lr, rl, kw, d)))}
       ELSE {[term |-> "go", compared |-> {"operator", "negate"}]}
  ELSE {[term |-> "False", compared |-> {}]}

\* ColIdentityComparatorStrategy.compare_column_element: SKIP_TRAVERSE
\* (term "skip") or COMPARE_FAILED; the loop over to_compare ends the same
\* way in every order of the set
compare_column_element(left, right, kw) ==
  LET to_compare ==
        {right} \cup (IF right \in DOMAIN kw.equivalents
                      THEN kw.equivalents[right] ELSE {})
  IN IF \/ \E oth \in to_compare : kw.use_proxies /\ shares_lineage(left, oth)
        \/ hash(left) = hash(right)
     THEN {[term |-> "skip", compared |-> {}]}
     ELSE {[term |-> "False", compared |-> {}]}

\* TraversalComparatorStrategy.compare_bindparam: the names to omit
compare_bindparam(left, right, kw) ==
  LET omit == IF kw.compare_values THEN {} ELSE {"callable", "value"}
  IN {[term |-> "go",
       compared |-> IF ~kw.compare_keys THEN omit \cup {"key"} ELSE omit]}

\* compare_inner on two plain objects that are equal by ==: the loop of
\* compare leaves an identical pair alone and reads __visit_name__ of any
\* other; None is one object, and whether two equal strings are one object
\* is not decided by the program
compare_inner_plain(lv, rv, d) ==
  IF d = 0 THEN {"RecursionError"}
  ELSE IF lv.t = "none" THEN {"True"}
  ELSE {"True", "AttributeError"}

\* TraversalComparatorStrategy._compare_dml_values_or_ce
compare_dml_values_or_ce(lv, rv, kw, d) ==
  LET lvce == has_clause_element(lv)
      rvce == has_clause_element(rv)
  IN IF lvce # rvce THEN {"False"}
     ELSE IF lvce
     THEN AndThen(compare_inner(lv.n, rv.n, kw, d),
                  compare_inner(lv.n, rv.n, kw, d))
     ELSE IF lv # rv THEN {"False"}
     ELSE compare_inner_plain(lv, rv, d)

\* the loop of visit_dml_ordered_values over zip_longest(left, right,
\* fillvalue=(None, None)), from position i on
OrderedValuesLoop(left, right, i, kw, d) ==
  IF i > Len(left) /\ i > Len(right) THEN {"True"}
  ELSE LET lk == IF i <= Len(left) THEN left[i].k ELSE NoneTV
           rk == IF i <= Len(right) THEN right[i].k ELSE NoneTV
       IN AndThen(compare_dml_values_or_ce(lk, rk, kw, d),
                  OrderedValuesLoop(left, right, i + 1, kw, d))

\* TraversalComparatorStrategy.visit_dml_ordered_values
visit_dml_ordered_values(left, right, kw, d) ==
  IF right.none THEN {"TypeError"}
  ELSE OrderedValuesLoop(left.v, right.v, 1, kw, d)

\* no compare_ method was found, or the pair was left before the lookup
NoMeth == [term |-> "none", compared |-> {}]

Unasked == [term |-> "unasked", compared |-> {}]

\* whether getattr(self, "compare_%s" % visit_name, None) finds a method
has_compare_meth(left, kw) ==
  \/ visit_name(ClassOf(left)) \in {"binary", "clauselist", "bindparam"}
  \/ visit_name(ClassOf(left)) = "column" /\ kw.use_proxies

\* meth = getattr(self, "compare_%s" % visit_name, None) and its call; the
\* strategy is a ColIdentityComparatorStrategy when use_proxies is given
Override(left, right, kw, d) ==
  CASE visit_name(ClassOf(left)) = "binary" -> compare_binary(left, right, kw, d)
    [] visit_name(ClassOf(left)) = "clauselist" ->
         compare_clauselist(left, right, kw, d)
    [] visit_name(ClassOf(left)) = "bindparam" ->
         compare_bindparam(left, right, kw)
    [] visit_name(ClassOf(left)) = "column" /\ kw.use_proxies ->
         compare_column_element(left, right, kw)
    [] OTHER -> {[term |-> "go", compared |-> {}]}

\* the visit methods with the members of an unordered set appended to the
\* stack of the comparator, pair by pair
Dispatch_sets_on_the_stack(kind, left_child, right_child, kw, d) ==
  CASE kind = "dp_clauseelement" ->
         {Go(<< <<left_child.v, NodeOrNone(right_child)>> >>)}
    [] kind \in {"dp_clauseelement_list", "dp_clauseelement_tuple",
                 "dp_fromclause_ordered_set"} ->
         IF right_child.none THEN {Stop("TypeError")}
         ELSE {Go(zip_longest(left_child.v, right_child.v))}
    [] kind = "dp_clauseelement_unordered_set" ->
         IF right_child.none THEN {Stop("TypeError")}
         ELSE {Go(zip_longest(left_child.v, right_child.v))}
    [] kind \in {"dp_string", "dp_operator", "dp_anon_name", "dp_type",
                 "dp_plain_obj"} ->
         {IF ScalarEq(left_child, right_child) THEN Go(<<>>) ELSE Stop("False")}
    [] kind = "dp_unknown_structure" -> {Stop("NotImplementedError")}
    [] kind = "dp_annotations_key" ->
         {IF ScalarEq(left_child, right_child) THEN Go(<<>>) ELSE Stop("False")}
    [] kind = "dp_propagate_attrs" ->
         IF right_child.none THEN {Stop("AttributeError")}
         ELSE FromOutcomes(compare_inner(left_child.v, right_child.v,
                                         [NoKw EXCEPT !.use_proxies = kw.use_proxies],
                                         d))
    [] kind = "dp_dml_ordered_values" ->
         FromOutcomes(visit_dml_ordered_values(left_child, right_child, kw, d))

\* dispatch(left_attrname, left, left_child, right, right_child): the visit
\* method of the kind, left_child not None
Dispatch(kind, left_child, right_child, kw, d) ==
  CASE kind = "dp_clauseelement" ->
         {Go(<< <<left_child.v, NodeOrNone(right_child)>> >>)}
    [] kind \in {"dp_clauseelement_list", "dp_clauseelement_tuple",
                 "dp_fromclause_ordered_set"} ->
         IF right_child.none THEN {Stop("TypeError")}
         ELSE {Go(zip_longest(left_child.v, right_child.v))}
    [] kind = "dp_clauseelement_unordered_set" ->
         FromOutcomes(compare_unordered_sequences(left_child, right_child, kw, d))
    [] kind \in {"dp_string", "dp_operator", "dp_anon_name", "dp_type",
                 "dp_plain_obj"} ->
         {IF ScalarEq(left_child, right_child) THEN Go(<<>>) ELSE Stop("False")}
    [] kind = "dp_unknown_structure" -> {Stop("NotImplementedError")}
    [] kind = "dp_annotations_key" ->
         {IF ScalarEq(left_child, right_child) THEN Go(<<>>) ELSE Stop("False")}
    [] kind = "dp_propagate_attrs" ->
         IF right_child.none THEN {Stop("AttributeError")}
         ELSE FromOutcomes(compare_inner(left_child.v, right_child.v,
                                         [NoKw EXCEPT !.use_proxies = kw.use_proxies],
                                         d))
    [] kind = "dp_dml_ordered_values" ->
         FromOutcomes(visit_dml_ordered_values(left_child, right_child, kw, d))

\* the loop of compare over the two schemas, zipped, from position i on
AttrLoop(left, right, i, compared, push, seen, kw, d) ==
  LET lt == traverse_internals(ClassOf(left))
      rt == traverse_internals(ClassOf(right))
      l == IF i <= Len(lt) THEN lt[i] ELSE <<"", "">>
      r == IF i <= Len(rt) THEN rt[i] ELSE <<"", "">>
  IN IF i > Len(lt) /\ i > Len(rt) THEN {Ended(Go(push), seen)}
     ELSE IF /\ ~kw.compare_annotations
             /\ (l[1] = "_annotations" \/ r[1] = "_annotations")
     THEN AttrLoop(left, right, i + 1, compared, push, seen, kw, d)
     ELSE IF l # r THEN {Ended(Stop("False"), seen)}
     ELSE IF l[1] \in compared
     THEN AttrLoop(left, right, i + 1, compared, push, seen, kw, d)
     ELSE LET left_child == Attr(left, l[1])
              right_child == Attr(right, r[1])
              now == Append(seen, l[1])
          IN IF left_child.none
             THEN IF ~right_child.none THEN {Ended(Stop("False"), now)}
                  ELSE AttrLoop(left, right, i + 1, compared, push, now, kw, d)
             ELSE UNION {IF s.term = "go"
                         THEN AttrLoop(left, right, i + 1, compared,
                                       push \o s.push, now, kw, d)
                         ELSE {Ended(s, now)}
                         : s \in Dispatch(l[2], left_child, right_child, kw, d)}

\* the body of the loop with the names the compare_ method returned dropped
ComparePair_compares_every_attribute(left, right, kw, d) ==
  LET Pass(s, meth) ==
        [term |-> s.term, push |-> s.push, seen |-> s.seen, meth |-> meth]
      Answer(a) == IF has_compare_meth(left, kw) THEN a ELSE NoMeth
  IN IF visit_name(ClassOf(left)) # visit_name(ClassOf(right))
     THEN {Pass(Ended(Stop("False"), <<>>), Unasked)}
     ELSE UNION {IF a.term = "go"
                 THEN {Pass(s, Answer(a))
                       : s \in AttrLoop(left, right, 1, {}, <<>>, <<>>, kw, d)}
                 ELSE IF a.term = "skip" THEN {Pass(Ended(Go(<<>>), <<>>), a)}
                 ELSE {Pass(Ended(Stop(a.term), <<>>), a)}
                 : a \in Override(left, right, kw, d)}

\* the body of the while loop of compare for a pair that is not yet cached;
\* meth is what the compare_ method of the pair returned, NoMeth without one
ComparePair(left, right, kw, d) ==
  LET Pass(s, meth) ==
        [term |-> s.term, push |-> s.push, seen |-> s.seen, meth |-> meth]
      Answer(a) == IF has_compare_meth(left, kw) THEN a ELSE NoMeth
  IN IF visit_name(ClassOf(left)) # visit_name(ClassOf(right))
     THEN {Pass(Ended(Stop("False"), <<>>), Unasked)}
     ELSE UNION {IF a.term = "go"
                 THEN {Pass(s, Answer(a))
                       : s \in AttrLoop(left, right, 1, a.compared, <<>>, <<>>,
                                        kw, d)}
                 ELSE IF a.term = "skip" THEN {Pass(Ended(Go(<<>>), <<>>), a)}
                 ELSE {Pass(Ended(Stop(a.term), <<>>), a)}
                 : a \in Override(left, right, kw, d)}

\* TraversalComparatorStrategy.compare from the state (stack, cache) on
Strategy_compare(stack, cache, kw, d) ==
  IF stack = <<>> THEN {"True"}
  ELSE LET left == Head(stack)[1]
           right == Head(stack)[2]
       IN IF left = right THEN Strategy_compare(Tail(stack), cache, kw, d)
          ELSE IF left = 0 \/ right = 0 THEN {"False"}
          ELSE IF <<left, right>> \in cache
          THEN Strategy_compare(Tail(stack), cache, kw, d)
          ELSE UNION {IF s.term = "go"
                      THEN Strategy_compare(Tail(stack) \o s.push,
                                            cache \cup {<<left, right>>}, kw, d)
                      ELSE {s.term}
                      : s \in ComparePair(left, right, kw, d)}

\* one pass of the while loop of compare, from the comparator's stack and
\* cache: the ways it ends or goes on, with the stack and cache it leaves
Strategy_compare_step(stack, cache, kw, d) ==
  LET left == Head(stack)[1]
      right == Head(stack)[2]
      Next(term, push, add, seen, meth) ==
        [term |-> term, stack |-> Tail(stack) \o push, cache |-> cache \cup add,
         push |-> push, left |-> left, right |-> right, seen |-> seen,
         meth |-> meth]
  IN IF left = right THEN {Next("go", <<>>, {}, <<>>, Unasked)}
     ELSE IF left = 0 \/ right = 0 THEN {Next("False", <<>>, {}, <<>>, Unasked)}
     ELSE IF <<left, right>> \in cache THEN {Next("go", <<>>, {}, <<>>, Unasked)}
     ELSE {Next(s.term, s.push, {<<left, right>>}, s.seen, s.meth)
           : s \in ComparePair(left, right, kw, d)}

\* compare(obj1, obj2, **kw): a new comparator and its compare
compare_kw(obj1, obj2, kw) ==
  Strategy_compare(Append(Comparator.stack, <<obj1, obj2>>), Comparator.cache,
                   kw, RecursionLimit)

\* compare(obj1, obj2), no keyword argument given
compare(obj1, obj2) == compare_kw(obj1, obj2, NoKw)

(******************* structural copy and child extraction ******************)

\* clone(element, **kw) for a clone function [fresh, map]
ApplyClone(clone, tv) ==
  CASE tv.t = "node" -> NodeTV(clone.map[tv.n])
    [] tv.t = "str" -> IF clone.fresh THEN ClonedTV(tv.s) ELSE tv
    [] OTHER -> tv

CloneEach(element, clone) ==
  [i \in DOMAIN element |-> clone.map[element[i]]]

EachNode(element) == [i \in DOMAIN element |-> NodeTV(element[i])]

\* the elements of a new set, each once
RECURSIVE Dedupe(_)
Dedupe(q) ==
  IF q = <<>> THEN <<>>
  ELSE LET front == Dedupe(SubSeq(q, 1, Len(q) - 1))
       IN IF q[Len(q)] \in Range(front) THEN front
          ELSE Append(front, q[Len(q)])

\* the handlers of _CopyInternals: the value to assign, and the arguments of
\* the calls of clone, in order
CopyInternals_visit_clauseelement(element, clone) ==
  [v |-> clone.map[element], calls |-> <<NodeTV(element)>>]

CopyInternals_visit_clauseelement_list(element, clone) ==
  [v |-> CloneEach(element, clone), calls |-> EachNode(element)]

CopyInternals_visit_clauseelement_unordered_set(element, clone) ==
  [v |-> Dedupe(CloneEach(element, clone)), calls |-> EachNode(element)]

CopyInternals_visit_clauseelement_tuples(element, clone) ==
  [v |-> [i \in DOMAIN element |-> CloneEach(element[i], clone)],
   calls |-> Concat([i \in DOMAIN element |-> EachNode(element[i])])]

CopyInternals_visit_string_clauseelement_dict(element, clone) ==
  [v |-> [i \in DOMAIN element |->
            [k |-> element[i].k, v |-> clone.map[element[i].v]]],
   calls |-> [i \in DOMAIN element |-> NodeTV(element[i].v)]]

CopyInternals_visit_setup_join_tuple(element, clone) ==
  LET IfNotNone(tv) == IF tv.t # "none" THEN ApplyClone(clone, tv) ELSE NoneTV
      Called(tv) == IF tv.t # "none" THEN <<tv>> ELSE <<>>
  IN [v |-> [i \in DOMAIN element |->
               [target |-> IfNotNone(element[i].target),
                onclause |-> IfNotNone(element[i].onclause),
                from_ |-> IfNotNone(element[i].from_),
                flags |-> element[i].flags]],
      calls |-> Concat([i \in DOMAIN element |->
                  Called(element[i].target) \o Called(element[i].onclause)
                  \o Called(element[i].from_)])]

CopyInternals_visit_dml_ordered_values(element, clone) ==
  [v |-> [i \in DOMAIN element |->
            [k |-> IF has_clause_element(element[i].k)
                   THEN ApplyClone(clone, element[i].k) ELSE element[i].k,
             v |-> clone.map[element[i].v]]],
   calls |-> Concat([i \in DOMAIN element |->
               (IF has_clause_element(element[i].k)
                THEN <<element[i].k>> ELSE <<>>)
               \o <<NodeTV(element[i].v)>>])]

CopyInternals_visit_dml_values(element, clone) ==
  CopyInternals_visit_dml_ordered_values(element, clone)

\* the kinds _CopyInternals has a handler for, among the kinds of the schemas
CopyInternalsKinds ==
  {"dp_clauseelement", "dp_clauseelement_list", "dp_clauseelement_tuple",
   "dp_clauseelement_unordered_set", "dp_clauseelement_tuples",
   "dp_string_clauseelement_dict", "dp_setup_join_tuple",
   "dp_dml_ordered_values", "dp_dml_values"}

CopyInternals_visit(kind, element, clone) ==
  CASE kind = "dp_clauseelement" ->
         CopyInternals_visit_clauseelement(element, clone)
    [] kind \in {"dp_clauseelement_list", "dp_clauseelement_tuple"} ->
         CopyInternals_visit_clauseelement_list(element, clone)
    [] kind = "dp_clauseelement_unordered_set" ->
         CopyInternals_visit_clauseelement_unordered_set(element, clone)
    [] kind = "dp_clauseelement_tuples" ->
         CopyInternals_visit_clauseelement_tuples(element, clone)
    [] kind = "dp_string_clauseelement_dict" ->
         CopyInternals_visit_string_clauseelement_dict(element, clone)
    [] kind = "dp_setup_join_tuple" ->
         CopyInternals_visit_setup_join_tuple(element, clone)
    [] kind = "dp_dml_ordered_values" ->
         CopyInternals_visit_dml_ordered_values(element, clone)
    [] kind = "dp_dml_values" ->
         CopyInternals_visit_dml_values(element, clone)

\* result is None: a handler returns None only when it returns what clone
\* gave it and clone returned None (0); the others return a new collection
ResultIsNone(kind, result) == kind = "dp_clauseelement" /\ result.v = 0

\* _copy_internals.run_generated_dispatch(self, traverse_internals, ...): the
\* attributes of the schema whose kind has a handler, in schema order
CopyPlan(cls) ==
  SelectSeq(traverse_internals(cls), LAMBDA an : an[2] \in CopyInternalsKinds)

\* the loop of _copy_internals from the i-th attribute of the plan on; r is
\* the node as assigned so far, the calls of clone made, the attributes
\* assigned
RECURSIVE CopyAttrs(_, _, _, _, _)
CopyAttrs(n, i, r, omit_attrs, clone) ==
  LET plan == CopyPlan(ClassOf(n))
  IN IF i > Len(plan) THEN r
     ELSE LET attrname == plan[i][1]
              obj == Attr(n, attrname)
          IN IF attrname \in omit_attrs \/ obj.none
             THEN CopyAttrs(n, i + 1, r, omit_attrs, clone)
             ELSE LET result == CopyInternals_visit(plan[i][2], obj.v, clone)
                  IN IF ResultIsNone(plan[i][2], result)
                     THEN CopyAttrs(n, i + 1,
                            [r EXCEPT !.calls = @ \o result.calls],
                            omit_attrs, clone)
                     ELSE CopyAttrs(n, i + 1,
                            [node |-> [r.node EXCEPT
                                         !.at[attrname] = Some(result.v)],
                             calls |-> r.calls \o result.calls,
                             assigned |-> r.assigned \cup {attrname}],
                            omit_attrs, clone)

\* _copy_internals that looks at no omit_attrs
copy_internals_omits_nothing(n, omit_attrs, clone) ==
  IF ~has_traverse_internals(ClassOf(n))
  THEN [node |-> heap[n], calls |-> <<>>, assigned |-> {}]
  ELSE CopyAttrs(n, 1, [node |-> heap[n], calls |-> <<>>, assigned |-> {}],
                 {}, clone)

\* HasCopyInternals._copy_internals
copy_internals(n, omit_attrs, clone) ==
  IF ~has_traverse_internals(ClassOf(n))
  THEN [node |-> heap[n], calls |-> <<>>, assigned |-> {}]
  ELSE CopyAttrs(n, 1, [node |-> heap[n], calls |-> <<>>, assigned |-> {}],
                 omit_attrs, clone)

\* the plain keys a values collection may have, in sorted order
PlainKeys == <<"a", "b">>

\* the handlers of _GetChildren; _flatten_clauseelement returns a node as
\* it is
GetChildren_visit_setup_join_tuple_target_first(element) ==
  Concat([i \in DOMAIN element |->
    (IF element[i].target.t # "str" THEN <<element[i].target>> ELSE <<>>)
    \o (IF element[i].from_.t # "none" THEN <<element[i].from_>> ELSE <<>>)
    \o (IF element[i].onclause.t \notin {"none", "str"}
        THEN <<element[i].onclause>> ELSE <<>>)])

GetChildren_visit_setup_join_tuple(element) ==
  Concat([i \in DOMAIN element |->
    (IF element[i].from_.t # "none" THEN <<element[i].from_>> ELSE <<>>)
    \o (IF element[i].target.t # "str" THEN <<element[i].target>> ELSE <<>>)
    \o (IF element[i].onclause.t \notin {"none", "str"}
        THEN <<element[i].onclause>> ELSE <<>>)])

GetChildren_visit_dml_ordered_values(element) ==
  Concat([i \in DOMAIN element |->
    (IF has_clause_element(element[i].k) THEN <<element[i].k>> ELSE <<>>)
    \o <<NodeTV(element[i].v)>>])

\* the values of the plain keys in the order of the sorted keys, then the
\* node keys, each with its value, in the order the set of them iterates
GetChildren_visit_dml_values(element) ==
  LET ValueOf(key) ==
        LET i == CHOOSE j \in DOMAIN element : element[j].k = StrTV(key)
        IN NodeTV(element[i].v)
      present == SelectSeq(PlainKeys,
                   LAMBDA key : \E j \in DOMAIN element : element[j].k = StrTV(key))
      exprs == SelectSeq(element, LAMBDA e : has_clause_element(e.k))
  IN [i \in DOMAIN present |-> ValueOf(present[i])]
     \o Concat([i \in DOMAIN exprs |-> <<exprs[i].k, NodeTV(exprs[i].v)>>])

GetChildren_visit(kind, element) ==
  CASE kind = "dp_clauseelement" -> <<NodeTV(element)>>
    [] kind \in {"dp_clauseelement_list", "dp_clauseelement_tuple",
                 "dp_fromclause_ordered_set",
                 "dp_clauseelement_unordered_set"} -> EachNode(element)
    [] kind = "dp_clauseelement_tuples" ->
         Concat([i \in DOMAIN element |-> EachNode(element[i])])
    [] kind = "dp_string_clauseelement_dict" ->
         [i \in DOMAIN element |-> NodeTV(element[i].v)]
    [] kind = "dp_setup_join_tuple" -> GetChildren_visit_setup_join_tuple(element)
    [] kind = "dp_dml_ordered_values" ->
         GetChildren_visit_dml_ordered_values(element)
    [] kind = "dp_dml_values" -> GetChildren_visit_dml_values(element)
    [] OTHER -> <<>>

\* the children of a node record: the handlers' yields chained in schema
\* order, for the attributes that are not None
children_of(node) ==
  LET ti == traverse_internals(node.cls)
  IN Concat([i \in DOMAIN ti |->
       IF node.at[ti[i][1]].none THEN <<>>
       ELSE GetChildren_visit(ti[i][2], node.at[ti[i][1]].v)])

get_children(n) == children_of(heap[n])

(************************** building expressions ***************************)
Column(name) == [cls |-> "column", at |-> [name |-> Some(name)]]

Grouping(element) == [cls |-> "grouping", at |-> [element |-> element]]

Binary(left, right, operator) ==
  [cls |-> "binary",
   at |-> [left |-> Some(left), right |-> Some(right),
           operator |-> Some(operator), negate |-> NoneVal]]

ClauseList(clauses, operator) ==
  [cls |-> "clauselist", at |-> [clauses |-> clauses, operator |-> Some(operator)]]

Cte(restates) == [cls |-> "cte", at |-> [restates |-> restates]]

Opaque(element, payload) ==
  [cls |-> "opaque", at |-> [element |-> element, payload |-> payload]]

Tuple(clauses) == [cls |-> "tuple", at |-> [clauses |-> clauses]]

Values(data) == [cls |-> "values", at |-> [_data |-> data]]

Select(froms) == [cls |-> "select", at |-> [froms |-> froms]]

Mapping(named) == [cls |-> "mapping", at |-> [named |-> named]]

Joined(setup_joins) == [cls |-> "joined", at |-> [_setup_joins |-> setup_joins]]

Update(ordered_values) ==
  [cls |-> "update", at |-> [_ordered_values |-> ordered_values]]

Insert(values) == [cls |-> "insert", at |-> [_values |-> values]]

\* a column made as the proxy of the column c: it carries c's lineage
ProxyColumn(name, c) ==
  [cls |-> "column", at |-> [name |-> Some(name), proxy_set |-> Some(proxy_set(c))]]

AnnotatedColumn(name, annotations) ==
  [cls |-> "annotated_column",
   at |-> [name |-> Some(name), _annotations |-> annotations]]

TextColumn(text) == [cls |-> "text_column", at |-> [text |-> Some(text)]]

QuotedColumn(name) == [cls |-> "quoted_column", at |-> [name |-> Some(name)]]

\* an object of a class that declares no _traverse_internals
Bare == [cls |-> "bare", at |-> [payload |-> Some("blob")]]

\* a reference to one of the nodes, or None
OptNode == {NoneVal} \cup {Some(n) : n \in Nodes}

\* expressions are built, then one operation is called on them
Building == ret.op \in {"none", "new", "copy_internals"}

Alloc(node) ==
  /\ heap' = Append(heap, node)
  /\ ret' = [op |-> "new", node |-> Len(heap) + 1]

NewGrouping == \E e \in OptNode : Alloc(Grouping(e))

NewBinary(ops) == \E l, r \in Nodes, o \in ops : Alloc(Binary(l, r, o))

NewClauseList(ops) ==
  \E c \in {NoneVal} \cup {Some(q) : q \in SeqsUpTo(Nodes, MaxLen)}, o \in ops :
    Alloc(ClauseList(c, o))

NewCte ==
  \E c \in {NoneVal} \cup {Some(q) : q \in DistinctSeqs(Nodes, MaxLen)} :
    Alloc(Cte(c))

NewOpaque ==
  \E e \in OptNode, p \in {NoneVal, Some(""), Some("blob")} : Alloc(Opaque(e, p))

NewTuple ==
  \E c \in {NoneVal} \cup {Some(q) : q \in SeqsUpTo(Nodes, MaxLen)} :
    Alloc(Tuple(c))

NewValues ==
  \E d \in SeqsUpTo(SeqsUpTo(Nodes, MaxLen) \ {<<>>}, MaxLen) :
    Alloc(Values(Some(d)))

NewSelect ==
  \E f \in {NoneVal} \cup {Some(q) : q \in DistinctSeqs(Nodes, MaxLen)} :
    Alloc(Select(f))

NewMapping ==
  \E ks \in DistinctSeqs(Range(PlainKeys), MaxLen) :
    \E vs \in [DOMAIN ks -> Nodes] :
      Alloc(Mapping(Some([i \in DOMAIN ks |-> [k |-> ks[i], v |-> vs[i]]])))

\* the nodes and one plain string
NodeOrStr == {NodeTV(n) : n \in Nodes} \cup {StrTV("a")}

\* the 4-tuples (target, onclause, from_, flags) of _setup_joins
SetupJoinTuples ==
  [target : NodeOrStr, onclause : NodeOrStr \cup {NoneTV},
   from_ : {NodeTV(n) : n \in Nodes} \cup {NoneTV}, flags : {"flags"}]

NewJoined ==
  \E j \in {NoneVal} \cup {Some(q) : q \in SeqsUpTo(SetupJoinTuples, MaxLen)} :
    Alloc(Joined(j))

KeyValuePairs == {[k |-> k, v |-> v] : k \in NodeOrStr, v \in Nodes}

NewUpdate ==
  \E q \in SeqsUpTo(KeyValuePairs, MaxLen) : Alloc(Update(Some(q)))

NewInsert ==
  \E q \in DistinctSeqs(KeyValuePairs, MaxLen) :
    /\ \A i, j \in DOMAIN q : i # j => q[i].k # q[j].k
    /\ Alloc(Insert(Some(q)))

(***************************** operations **********************************)
GenerateCacheKey ==
  /\ Building
  /\ \E n \in Nodes :
       /\ ret' = generate_cache_key(n)
       /\ UNCHANGED heap

(********************** cache keys of small expressions ********************)
\* _clone(element): a shallow copy, which shares the children
Clone == \E n \in Nodes : Alloc(heap[n])

\* a clone function that replaces the node x by the node y
ReplaceClone(x, y) ==
  [fresh |-> FALSE, map |-> [z \in Nodes |-> IF z = x THEN y ELSE z]]

\* a clone function that returns None for the node x
DropClone(x) ==
  [fresh |-> FALSE, map |-> [z \in Nodes |-> IF z = x THEN 0 ELSE z]]

\* a clone function that makes a shallow copy of each node of the set given
FreshClone(inputs) ==
  [fresh |-> TRUE,
   map |-> [z \in Nodes |-> Len(heap) + Cardinality({y \in inputs : y <= z})]]

\* the nodes that _copy_internals calls clone for
CloneInputs(n, omit_attrs) ==
  {c.n : c \in {d \in Range(copy_internals(n, omit_attrs,
                                             ReplaceClone(n, n)).calls) :
                  d.t = "node"}}

\* the shallow copies that FreshClone(inputs) makes, in the order of their ids
FreshCopies(inputs) ==
  [i \in 1..Cardinality(inputs) |->
     heap[CHOOSE x \in inputs : Cardinality({y \in inputs : y <= x}) = i]]

OmitSets(n) ==
  {{}} \cup (IF has_traverse_internals(ClassOf(n))
             THEN {{traverse_internals(ClassOf(n))[1][1]}} ELSE {{"payload"}})

\* node._copy_internals(omit_attrs=omit_attrs, clone=clone)
CopyInternalsWith(n, omit_attrs, clone, copies) ==
  LET r == copy_internals(n, omit_attrs, clone)
  IN /\ heap' = [heap EXCEPT ![n] = r.node] \o copies
     /\ ret' = [op |-> "copy_internals", node |-> n, omit_attrs |-> omit_attrs,
                fresh |-> clone.fresh, was |-> heap[n], calls |-> r.calls,
                assigned |-> r.assigned,
                clone_none |-> {z \in Nodes : clone.map[z] = 0}]

\* with a clone function that returns a fresh object for every input
CopyInternalsFresh ==
  \E n \in Nodes : \E omit_attrs \in OmitSets(n) :
    CopyInternalsWith(n, omit_attrs, FreshClone(CloneInputs(n, omit_attrs)),
                      FreshCopies(CloneInputs(n, omit_attrs)))

\* with a clone function that replaces one node by another
CopyInternalsReplace ==
  \E n, x, y \in Nodes : \E omit_attrs \in OmitSets(n) :
    CopyInternalsWith(n, omit_attrs, ReplaceClone(x, y), <<>>)

KeyBase == <<Column("x"), Column("y"), Column("x"), Column("y")>>

InitKey ==
  /\ heap = KeyBase
  /\ ret = [op |-> "none"]

RoomKey == Building /\ Len(heap) < Len(KeyBase) + MaxNew

NextKey ==
  \/ RoomKey /\ NewGrouping
  \/ RoomKey /\ NewBinary({"add", "sub"})
  \/ RoomKey /\ NewClauseList({"and_"})
  \/ RoomKey /\ NewCte
  \/ RoomKey /\ NewOpaque
  \/ GenerateCacheKey

SpecKey == InitKey /\ [][NextKey]_vars

(********************* expressions with shared subtrees ********************)
ShareBase == <<Column("x"), Column("y")>>

InitShare ==
  /\ heap = ShareBase
  /\ ret = [op |-> "none"]

RoomShare == Building /\ Len(heap) < Len(ShareBase) + MaxNew

NextShare ==
  \/ RoomShare /\ NewGrouping
  \/ RoomShare /\ NewBinary({"add"})
  \/ RoomShare /\ NewClauseList({"and_"})
  \/ RoomShare /\ NewOpaque
  \/ GenerateCacheKey

SpecShare == InitShare /\ [][NextShare]_vars

(************************ comparing small expressions **********************)
Compare ==
  /\ Building
  /\ \E obj1, obj2 \in Nodes :
       \E outcome \in compare(obj1, obj2) :
         /\ UNCHANGED heap
         /\ ret' = [op |-> "compare", obj1 |-> obj1, obj2 |-> obj2,
                    outcome |-> outcome]

CmpBase == <<Column("x"), Column("x"), Column("x"), Column("y")>>

InitCmp ==
  /\ heap = CmpBase
  /\ ret = [op |-> "none"]

RoomCmp == Building /\ Len(heap) < Len(CmpBase) + MaxNew

NextCmp ==
  \/ RoomCmp /\ NewBinary({"add", "sub"})
  \/ RoomCmp /\ NewClauseList({"and_", "comma_op"})
  \/ RoomCmp /\ NewCte
  \/ Compare

SpecCmp == InitCmp /\ [][NextCmp]_vars

(********************** binary expressions and operands ********************)
BinBase ==
  <<Column("x"), Column("x"), Opaque(NoneVal, Some("blob")),
    Opaque(NoneVal, Some("blob"))>>

InitBin ==
  /\ heap = BinBase
  /\ ret = [op |-> "none"]

RoomBin == Building /\ Len(heap) < Len(BinBase) + MaxNew

NextBin ==
  \/ RoomBin /\ NewBinary({"add", "sub"})
  \/ Compare

SpecBin == InitBin /\ [][NextBin]_vars

(************************ sets of clause lists *****************************)
SetBase ==
  <<Column("x"), Column("x"), Column("x"),
    ClauseList(Some(<<1, 1>>), "and_"), ClauseList(Some(<<2, 3>>), "and_"),
    ClauseList(Some(<<2, 3>>), "and_")>>

InitSet ==
  /\ heap = SetBase
  /\ ret = [op |-> "none"]

RoomSet == Building /\ Len(heap) < Len(SetBase) + MaxNew

NextSet ==
  \/ RoomSet /\ NewCte
  \/ Compare

SpecSet == InitSet /\ [][NextSet]_vars

(*************** a commutative operator, its operands swapped **************)
SwapBase ==
  <<Column("x"), Column("x"), Column("y"), Opaque(NoneVal, Some("blob")),
    Opaque(NoneVal, Some("blob"))>>

InitSwap ==
  /\ heap = SwapBase
  /\ ret = [op |-> "none"]

RoomSwap == Building /\ Len(heap) < Len(SwapBase) + MaxNew

NextSwap ==
  \/ RoomSwap /\ NewBinary({"add"})
  \/ Compare
  \/ GenerateCacheKey

SpecSwap == InitSwap /\ [][NextSwap]_vars

(************************** copies of expressions *************************)
CopyBase == <<Column("x"), Column("y")>>

InitCopy ==
  /\ heap = CopyBase
  /\ ret = [op |-> "none"]

\* an expression is built and shallow-copied, then its internals are copied
RoomClone == ret.op \in {"none", "new"} /\ Len(heap) < Len(CopyBase) + MaxNew

RoomCopy == ret.op \in {"none", "new"} /\ Len(heap) + 1 < Len(CopyBase) + MaxNew

NextCopy ==
  \/ RoomCopy /\ NewGrouping
  \/ RoomCopy /\ NewClauseList({"and_"})
  \/ RoomCopy /\ NewTuple
  \/ RoomCopy /\ NewValues
  \/ RoomCopy /\ NewSelect
  \/ RoomCopy /\ NewCte
  \/ RoomCopy /\ NewMapping
  \/ RoomCopy /\ NewJoined
  \/ RoomCopy /\ NewUpdate
  \/ RoomCopy /\ NewInsert
  \/ RoomClone /\ Clone
  \/ ret.op = "new" /\ CopyInternalsFresh

SpecCopy == InitCopy /\ [][NextCopy]_vars

(********************* expressions that reach themselves *******************)
CycBase == <<Column("x"), Column("x")>>

InitCyc ==
  /\ heap = CycBase
  /\ ret = [op |-> "none"]

RoomCyc == Building /\ Len(heap) < Len(CycBase) + MaxNew

NextCyc ==
  \/ RoomCyc /\ NewBinary({"add"})
  \/ Building /\ CopyInternalsReplace
  \/ Compare

SpecCyc == InitCyc /\ [][NextCyc]_vars

(******************* what a copy of the internals assigns ******************)
NewBare == Alloc(Bare)

\* _copy_internals of the node just built
CopyBuiltFresh ==
  \E omit_attrs \in OmitSets(ret.node) :
    CopyInternalsWith(ret.node, omit_attrs,
                      FreshClone(CloneInputs(ret.node, omit_attrs)),
                      FreshCopies(CloneInputs(ret.node, omit_attrs)))

CopyBuiltDrop ==
  \E x \in Nodes : \E omit_attrs \in OmitSets(ret.node) :
    CopyInternalsWith(ret.node, omit_attrs, DropClone(x), <<>>)

InitFrame ==
  /\ heap = <<Column("x"), Column("y")>>
  /\ ret = [op |-> "none"]

NextFrame ==
  \/ ret.op \in {"none", "new"} /\ Len(heap) < 2 + MaxNew /\ NewBare
  \/ ret.op \in {"none", "new"} /\ Len(heap) < 2 + MaxNew /\ NewGrouping
  \/ ret.op \in {"none", "new"} /\ Len(heap) < 2 + MaxNew /\ NewBinary({"add"})
  \/ ret.op = "none" /\ NewClauseList({"and_"})
  \/ ret.op = "new" /\ CopyBuiltFresh
  \/ ret.op = "new" /\ CopyBuiltDrop

SpecFrame == InitFrame /\ [][NextFrame]_vars

(********************* the work queue of a comparison **********************)
\* what a pass of the loop did: the pair it popped, what the pair's compare_
\* method returned, the attribute names compared after it and the pairs
\* appended; no pass yet
NoPass ==
  [left |-> 0, right |-> 0, meth |-> Unasked, seen |-> <<>>, push |-> <<>>]

\* strategy.compare(obj1, obj2, **kw) up to its loop: the pair is appended to
\* the stack of a new comparator; queued lists every pair appended so far
CompareEnterKw(kws) ==
  /\ Building
  /\ \E obj1, obj2 \in Nodes, kw \in kws :
       ret' = [op |-> "comparing", obj1 |-> obj1, obj2 |-> obj2, kw |-> kw,
               stack |-> << <<obj1, obj2>> >>, cache |-> {},
               queued |-> << <<obj1, obj2>> >>, last |-> NoPass]
  /\ UNCHANGED heap

CompareEnter == CompareEnterKw({NoKw})

\* one pass of the while loop, or its end when the stack is empty
CompareLoop ==
  /\ ret.op = "comparing"
  /\ UNCHANGED heap
  /\ LET Return(outcome, last) ==
           [op |-> "compare", obj1 |-> ret.obj1, obj2 |-> ret.obj2,
            kw |-> ret.kw, outcome |-> outcome, last |-> last]
     IN IF ret.stack = <<>> THEN ret' = Return("True", NoPass)
        ELSE \E s \in Strategy_compare_step(ret.stack, ret.cache, ret.kw,
                                            RecursionLimit) :
               LET last == [left |-> s.left, right |-> s.right, meth |-> s.meth,
                            seen |-> s.seen, push |-> s.push]
               IN ret' = IF s.term = "go"
                         THEN [ret EXCEPT !.stack = s.stack, !.cache = s.cache,
                                          !.queued = @ \o s.push,
                                          !.last = last]
                         ELSE Return(s.term, last)

InitQueue ==
  /\ heap = <<Column("x"), Column("x")>>
  /\ ret = [op |-> "none"]

NextQueue ==
  \/ Building /\ Len(heap) < 2 + MaxNew /\ NewBinary({"sub"})
  \/ Building /\ Len(heap) < 2 + MaxNew /\ NewClauseList({"comma_op"})
  \/ CompareEnter
  \/ CompareLoop

SpecQueue == InitQueue /\ [][NextQueue]_vars

(**************************** one anon map *********************************)
\* the identities used as keys
IdKeys == 1..MaxIds

\* the map after a call, the key of the call and, in seen, the keys in the
\* order of their first use
AnonCall(op, key, st) ==
  /\ ret' = [op |-> op, key |-> key, st |-> st,
             seen |-> IF key \in Range(ret.seen) \/ key = 0 THEN ret.seen
                      ELSE Append(ret.seen, key)]
  /\ UNCHANGED heap

AnonGetItem ==
  \E key \in IdKeys : AnonCall("getitem", key, anon_map_getitem(ret.st, key))

AnonInlined ==
  \E idself \in IdKeys :
    AnonCall("gen_cache_key", idself, anon_map_inlined(ret.st, idself))

AnonSetNoCache == AnonCall("no_cache", 0, SetNoCache(ret.st))

InitAnon ==
  /\ heap = <<>>
  /\ ret = [op |-> "anon_map", key |-> 0, st |-> anon_map, seen |-> <<>>]

NextAnon == AnonGetItem \/ AnonInlined \/ AnonSetNoCache

SpecAnon == InitAnon /\ [][NextAnon]_vars

(************* statements with join setups or ordered values ***************)
\* node.get_children()
GetChildren ==
  /\ Building
  /\ \E n \in Nodes :
       /\ UNCHANGED heap
       /\ ret' = [op |-> "get_children", node |-> n, children |-> get_children(n)]

InitJoin ==
  /\ heap = <<Column("x"), Column("y")>>
  /\ ret = [op |-> "none"]

NextJoin ==
  \/ Len(heap) = 2 /\ NewJoined
  \/ Len(heap) = 2 /\ NewUpdate
  \/ GetChildren
  \/ ret.op = "new" /\ CopyInternalsFresh

SpecJoin == InitJoin /\ [][NextJoin]_vars

(******************** comparing columns by their lineage *******************)
IsColumn(n) == visit_name(ClassOf(n)) = "column"

NewProxy ==
  \E c \in {n \in Nodes : ClassOf(n) = "column"}, name \in {"x", "y"} :
    Alloc(ProxyColumn(name, c))

\* the equivalents a caller may give: none, or one column with one equivalent
Equivalents ==
  {<<>>} \cup {[k \in {r} |-> {e}] : r, e \in {n \in Nodes : IsColumn(n)}}

\* compare(obj1, obj2, **kw)
CompareKw(kws) ==
  /\ Building
  /\ \E obj1, obj2 \in Nodes, kw \in kws :
       \E outcome \in compare_kw(obj1, obj2, kw) :
         /\ UNCHANGED heap
         /\ ret' = [op |-> "compare", obj1 |-> obj1, obj2 |-> obj2,
                    kw |-> kw, outcome |-> outcome]

InitProxy ==
  /\ heap = <<Column("x"), Column("x"), Column("y")>>
  /\ ret = [op |-> "none"]

NextProxy ==
  \/ Building /\ Len(heap) < 3 + MaxNew /\ NewProxy
  \/ Building /\ Len(heap) < 3 + MaxNew /\ NewGrouping
  \/ CompareKw({NoKw} \cup {[NoKw EXCEPT !.use_proxies = TRUE, !.equivalents = e]
                            : e \in Equivalents})

SpecProxy == InitProxy /\ [][NextProxy]_vars

(******************* comparing nodes of differing schemas ******************)
NewAnnotatedColumn ==
  \E a \in {NoneVal, Some(""), Some("a"), Some("b")} : Alloc(AnnotatedColumn("x", a))

InitShape ==
  /\ heap = <<Column("x"), AnnotatedColumn("x", Some("a")), TextColumn("x"),
              QuotedColumn("x"), Opaque(NoneVal, NoneVal)>>
  /\ ret = [op |-> "none"]

NextShape ==
  \/ Building /\ Len(heap) < 5 + MaxNew /\ NewAnnotatedColumn
  \/ Building /\ Len(heap) < 5 + MaxNew /\ NewOpaque
  \/ Building /\ Len(heap) < 5 + MaxNew /\ NewGrouping
  \/ CompareKw({NoKw, [NoKw EXCEPT !.compare_annotations = TRUE]})

SpecShape == InitShape /\ [][NextShape]_vars

(***************** what a compare_ method leaves to the loop ***************)
\* a BindParameter with a key and a value
BindParam(key, value) ==
  [cls |-> "bindparam",
   at |-> [key |-> Some(key), type |-> Some("Integer"), callable |-> NoneVal,
           value |-> value]]

NewBindParam ==
  \E key \in {"p", "q"}, value \in {NoneVal, Some("1")} :
    Alloc(BindParam(key, value))

\* the keyword arguments the callers of compare give
OverrideKws ==
  {NoKw, [NoKw EXCEPT !.compare_values = FALSE],
   [NoKw EXCEPT !.compare_keys = FALSE],
   [NoKw EXCEPT !.compare_annotations = TRUE],
   [NoKw EXCEPT !.use_proxies = TRUE]}

InitOverride ==
  /\ heap = <<Column("x"), AnnotatedColumn("x", Some("a")),
              BindParam("p", Some("1"))>>
  /\ ret = [op |-> "none"]

NextOverride ==
  \/ Building /\ Len(heap) < 5 /\ NewBinary({"add", "sub"})
  \/ Building /\ Len(heap) < 3 + MaxNew /\ NewBindParam
  \/ Building /\ Len(heap) < 3 + MaxNew /\ NewAnnotatedColumn
  \/ Building /\ Len(heap) < 3 + MaxNew /\ NewProxy
  \/ CompareEnterKw(OverrideKws)
  \/ CompareLoop

SpecOverride == InitOverride /\ [][NextOverride]_vars

(******************** comparisons made by a comparator of their own ********)
\* a statement with its _propagate_attrs; subject is what
\* _propagate_attrs.get("plugin_subject", None) gives, 0 for None
Statement(subject) ==
  [cls |-> "statement", at |-> [_propagate_attrs |-> Some(subject)]]

NewStatement == \E subject \in Nodes \cup {0} : Alloc(Statement(subject))

\* a list of two clauses
NewPairList ==
  \E a, b \in Nodes, o \in {"and_", "comma_op"} :
    Alloc(ClauseList(Some(<<a, b>>), o))

\* two columns and two sets of them; two more nodes are built
InitNest ==
  /\ heap = <<Column("x"), Column("y"), Cte(Some(<<1, 2>>)), Cte(Some(<<2, 1>>))>>
  /\ ret = [op |-> "none"]

NextNest ==
  \/ Building /\ Len(heap) = 4 /\ NewCte
  \/ Building /\ Len(heap) < 6 /\ NewStatement
  \/ Building /\ Len(heap) < 6 /\ NewPairList
  \/ Building /\ Len(heap) < 6 /\ NewBinary({"add", "sub"})
  \/ CompareEnter
  \/ CompareLoop

SpecNest == InitNest /\ [][NextNest]_vars

(************** assignment lists: ordered key/value pairs *******************)
\* two columns; two updates are built over them and compared
InitValues ==
  /\ heap = <<Column("x"), Column("y")>>
  /\ ret = [op |-> "none"]

NextValues ==
  \/ Building /\ Len(heap) < 4 /\ NewUpdate
  \/ Compare

SpecValues == InitValues /\ [][NextValues]_vars

(**************** two attributes of one kind in a schema *******************)
\* a node with two lists of strings
Hinted(hints, prefixes) ==
  [cls |-> "hinted", at |-> [_hints |-> hints, _prefixes |-> prefixes]]

\* a statement with its join setups, the legacy ones apart
Query(setup_joins, legacy_setup_joins) ==
  [cls |-> "query",
   at |-> [_setup_joins |-> setup_joins,
           _legacy_setup_joins |-> legacy_setup_joins]]

StringLists == {NoneVal} \cup {Some(q) : q \in SeqsUpTo({"a", "b"}, MaxLen)}

NewHinted == \E hints, prefixes \in StringLists : Alloc(Hinted(hints, prefixes))

\* the join setups whose targets and on-clauses are nodes, as both
\* attributes may hold them
NodeJoins ==
  {NoneVal} \cup
  {Some(q) : q \in SeqsUpTo({j \in SetupJoinTuples :
                               j.target.t = "node" /\ j.onclause.t # "str"}, 1)}

\* a statement with join setups of the one sort or of the other
NewQuery ==
  \E none \in {NoneVal, Some(<<>>)} :
    \/ \E setup_joins \in NodeJoins : Alloc(Query(setup_joins, none))
    \/ \E legacy \in NodeJoins \cup {Some(<<j>>) : j \in SetupJoinTuples} :
         Alloc(Query(none, legacy))

InitLabel ==
  /\ heap = <<Column("x"), Column("y")>>
  /\ ret = [op |-> "none"]

NextLabel ==
  \/ Building /\ Len(heap) < 2 + MaxNew /\ NewHinted
  \/ Building /\ Len(heap) < 2 + MaxNew /\ NewQuery
  \/ GenerateCacheKey

SpecLabel == InitLabel /\ [][NextLabel]_vars

(****************** the schema a type's keys are made from *****************)
\* The classes below HasCacheKey, each with what its own class body holds:
\* parent is the base class (0 for HasCacheKey itself), inherit_cache is
\* whether the body sets inherit_cache = True, _cache_key_traversal and
\* _traverse_internals are "absent", or None, or the name of a schema, and
\* _generated_cache_key_traversal is "absent" until it is set on the class;
\* ran tells whether _generate_cache_attrs has been called on the class.
TypeSchemas == {"by_name", "by_text"}

\* the (attrname, kind) pairs of a schema
TypeSchema(name) ==
  IF name = "by_name" THEN << <<"name", "dp_string">> >>
  ELSE << <<"text", "dp_string">> >>

TypeBodies(parents) ==
  [parent : parents, inherit_cache : BOOLEAN,
   _cache_key_traversal : {"absent", "None"} \cup TypeSchemas,
   _traverse_internals : {"absent"} \cup TypeSchemas,
   _generated_cache_key_traversal : {"absent"}, ran : {FALSE}]

RECURSIVE getattr_cache_key_traversal(_, _)
RECURSIVE getattr_traverse_internals(_, _)

\* getattr(cls, "_cache_key_traversal", None): the class body nearest to cls
\* that holds the name; HasCacheKey holds NO_CACHE
getattr_cache_key_traversal(types, cls) ==
  IF cls = 0 THEN "NO_CACHE"
  ELSE IF types[cls]._cache_key_traversal # "absent"
  THEN types[cls]._cache_key_traversal
  ELSE getattr_cache_key_traversal(types, types[cls].parent)

\* cls._traverse_internals, AttributeError when no class body holds it
getattr_traverse_internals(types, cls) ==
  IF cls = 0 THEN "AttributeError"
  ELSE IF types[cls]._traverse_internals # "absent"
  THEN types[cls]._traverse_internals
  ELSE getattr_traverse_internals(types, types[cls].parent)

\* cls.__dict__.get(name, None)
dict_get(value) == IF value = "absent" THEN "None" ELSE value

\* cls._generated_cache_key_traversal = NO_CACHE; return NO_CACHE
StoreNoCache(types, cls) ==
  [types |-> [types EXCEPT ![cls]._generated_cache_key_traversal = "NO_CACHE"],
   dispatcher |-> "NO_CACHE"]

\* _cache_key_traversal_visitor.generate_dispatch(cls, internal_dispatch,
\* "_generated_cache_key_traversal"): the dispatcher over the pairs of the
\* schema is set on cls and returned; what is not a sequence of pairs cannot
\* be iterated over
generate_dispatch(types, cls, internal_dispatch) ==
  IF internal_dispatch \in TypeSchemas
  THEN [types |-> [types EXCEPT ![cls]._generated_cache_key_traversal =
                                  internal_dispatch],
        dispatcher |-> internal_dispatch]
  ELSE [types |-> types, dispatcher |-> "TypeError"]

\* HasCacheKey._generate_cache_attrs
generate_cache_attrs(types, cls) ==
  LET inherit == types[cls].inherit_cache
  IN IF inherit
     THEN LET seen == getattr_cache_key_traversal(types, cls)
              internals == getattr_traverse_internals(types, cls)
          IN IF seen = "None"
             THEN IF internals = "AttributeError" THEN StoreNoCache(types, cls)
                  ELSE generate_dispatch(types, cls, internals)
             ELSE generate_dispatch(types, cls, seen)
     ELSE LET own == dict_get(types[cls]._cache_key_traversal)
              internals == dict_get(types[cls]._traverse_internals)
          IN IF own # "None" THEN generate_dispatch(types, cls, own)
             ELSE IF internals = "None" THEN StoreNoCache(types, cls)
             ELSE generate_dispatch(types, cls, internals)

\* the loop of _gen_cache_key over the dispatcher of a schema, for an object
\* whose name is "x" and whose text is "t"
KeyOfPlan(plan, result) ==
  result \o Concat([i \in DOMAIN plan |->
                     <<plan[i][1], IF plan[i][1] = "name" THEN "x" ELSE "t">>])

\* _gen_cache_key(anon_map, bindparams) of a new object of the class cls
\* with a new anon_map: the lookup of the dispatcher in cls.__dict__, its
\* generation on a KeyError, and the key or None
gen_cache_key_of_type(types, cls) ==
  LET st == anon_map_inlined(anon_map, 1)
      id_ == anon_map_value(st, 1)
      stored == types[cls]._generated_cache_key_traversal
      made == IF stored = "absent"
              THEN generate_cache_attrs([types EXCEPT ![cls].ran = TRUE], cls)
              ELSE [types |-> types, dispatcher |-> stored]
      base == [op |-> "gen_cache_key", cls |-> cls, types |-> made.types,
               generated |-> stored = "absent",
               again |-> stored = "absent" /\ types[cls].ran,
               dispatcher |-> made.dispatcher,
               raised |-> FALSE, none |-> FALSE, nocache |-> FALSE, key |-> <<>>]
  IN IF made.dispatcher = "TypeError" THEN [base EXCEPT !.raised = TRUE]
     ELSE IF made.dispatcher = "NO_CACHE"
     THEN [base EXCEPT !.none = TRUE, !.nocache = SetNoCache(st).nocache]
     ELSE [base EXCEPT !.key = KeyOfPlan(TypeSchema(made.dispatcher),
                                         <<id_, "<class " \o ToString(cls) \o ">">>)]

\* a class is declared below HasCacheKey or below a class declared before
NewType ==
  /\ ret.op \in {"none", "new_type"}
  /\ Len(ret.types) < MaxNew
  /\ \E body \in TypeBodies(0..Len(ret.types)) :
       ret' = [op |-> "new_type", cls |-> Len(ret.types) + 1,
               types |-> Append(ret.types, body)]
  /\ UNCHANGED heap

GenCacheKeyOfType ==
  /\ ret.types # <<>>
  /\ \E cls \in DOMAIN ret.types : ret' = gen_cache_key_of_type(ret.types, cls)
  /\ UNCHANGED heap

InitSchema ==
  /\ heap = <<>>
  /\ ret = [op |-> "none", types |-> <<>>]

NextSchema == NewType \/ GenCacheKeyOfType

SpecSchema == InitSchema /\ [][NextSchema]_vars

(************************ the shape of an expression ***********************)
\* the nodes an attribute value of the given kind refers to
RefsOf(kind, val) ==
  IF val.none THEN {}
  ELSE CASE kind = "dp_clauseelement" -> {val.v}
         [] kind \in {"dp_clauseelement_list", "dp_clauseelement_tuple",
                      "dp_clauseelement_unordered_set",
                      "dp_fromclause_ordered_set"} -> Range(val.v)
         [] OTHER -> {}

Refs(n) ==
  LET ti == traverse_internals(ClassOf(n))
  IN UNION {RefsOf(ti[i][2], Attr(n, ti[i][1])) : i \in DOMAIN ti}

RECURSIVE ReachFrom(_)
ReachFrom(S) ==
  LET T == S \cup UNION {Refs(m) : m \in S}
  IN IF T = S THEN S ELSE ReachFrom(T)

\* the nodes of the expression rooted at n
Reach(n) == ReachFrom({n})

HasUnknownStructure(n) ==
  \E i \in DOMAIN traverse_internals(ClassOf(n)) :
    traverse_internals(ClassOf(n))[i][2] = "dp_unknown_structure"

\* no unordered set and no unknown structure anywhere in the expression
OrderedOnly(n) ==
  \A m \in Reach(n) : \A i \in DOMAIN traverse_internals(ClassOf(m)) :
    traverse_internals(ClassOf(m))[i][2] \notin
      {"dp_clauseelement_unordered_set", "dp_unknown_structure"}

\* attribute values that agree under the correspondence phi of nodes
SameValue(kind, a, b, phi) ==
  /\ a.none = b.none
  /\ ~a.none =>
       CASE kind = "dp_clauseelement" -> phi[a.v] = b.v
         [] kind \in {"dp_clauseelement_list", "dp_clauseelement_tuple",
                      "dp_fromclause_ordered_set"} ->
              /\ Len(a.v) = Len(b.v)
              /\ \A i \in DOMAIN a.v : phi[a.v[i]] = b.v[i]
         [] kind = "dp_clauseelement_unordered_set" ->
              {phi[x] : x \in Range(a.v)} = Range(b.v)
         [] OTHER -> a.v = b.v

\* the expressions rooted at a and at b are the same structure: a one-to-one
\* correspondence of their nodes maps a to b and keeps classes and attributes
\* (the members of an unordered set in any order)
SameStructure(a, b) ==
  /\ Cardinality(Reach(a)) = Cardinality(Reach(b))
  /\ \E phi \in [Reach(a) -> Reach(b)] :
       /\ phi[a] = b
       /\ \A m, n \in Reach(a) : m # n => phi[m] # phi[n]
       /\ \A m \in Reach(a) :
            /\ ClassOf(m) = ClassOf(phi[m])
            /\ \A i \in DOMAIN traverse_internals(ClassOf(m)) :
                 LET an == traverse_internals(ClassOf(m))[i]
                 IN SameValue(an[2], Attr(m, an[1]), Attr(phi[m], an[1]), phi)

(***************************************************************************)
(* C1. No-cache propagation: when the expression whose key was generated   *)
(* holds, at any depth, a node whose schema has an attribute of the        *)
(* unknown-structure kind, _generate_cache_key returned None, whatever     *)
(* the value of that attribute.                                            *)
(***************************************************************************)
C1_NoCachePropagation ==
  (ret.op = "generate_cache_key" /\
   \E m \in Reach(ret.node) : HasUnknownStructure(m)) => ret.none

(***************************************************************************)
(* C2. Determinism: two separately built expressions of the same structure *)
(* (no node in common, unordered sets possibly iterating in different      *)
(* orders) get equal key tuples, each from a fresh anon map.               *)
(***************************************************************************)
C2_Determinism ==
  ret.op = "generate_cache_key" =>
    \A b \in Nodes :
      (Reach(ret.node) \cap Reach(b) = {} /\ SameStructure(ret.node, b)) =>
        LET other == generate_cache_key(b)
        IN other.none = ret.none /\ other.key = ret.key

(***************************************************************************)
(* C10. Shared-subtree key compaction, as the code has it: within one key  *)
(* generation every occurrence of a node after its first returns exactly   *)
(* (id, type-token) with the id given at the first occurrence and calls    *)
(* nothing; that tuple is never longer than the one of the first           *)
(* occurrence, and strictly shorter unless every attribute of the node was *)
(* skipped there (None, empty, or of the unknown-structure kind).          *)
(***************************************************************************)
\* no attribute of n adds a fragment to n's key
AllAttrsSkipped(n) ==
  \A i \in DOMAIN traverse_internals(ClassOf(n)) :
    LET an == traverse_internals(ClassOf(n))[i]
        val == Attr(n, an[1])
    IN \/ val.none
       \/ an[2] = "dp_unknown_structure"
       \/ an[2] # "dp_clauseelement" /\ ~Truthy(an[2], val.v)

\* the call at which the node of call i first occurred
FirstCall(calls, i) ==
  CHOOSE j \in DOMAIN calls : calls[j].node = calls[i].node /\ calls[j].first

IsBinary(n) == ClassOf(n) = "binary"

SameOperator(a, b) == ScalarEq(Attr(a, "operator"), Attr(b, "operator"))

LeftOf(n) == NodeOrNone(Attr(n, "left"))

RightOf(n) == NodeOrNone(Attr(n, "right"))

\* b is a with its operands swapped
Swapped(a, b) ==
  /\ IsBinary(a) /\ IsBinary(b) /\ a # b /\ SameOperator(a, b)
  /\ LeftOf(b) = RightOf(a) /\ RightOf(b) = LeftOf(a)

\* x ~ y: the recursive comparison of x with y can only end "True"
Equal(x, y) == compare(x, y) = {"True"}

(***************************************************************************)
(* C4. Commutative-operator comparison, as the code has it.  Two binary    *)
(* nodes with different operators compare false.  With the same operator,  *)
(* not commutative, the comparison is true exactly when left~left and      *)
(* right~right.  With the same operator, commutative, it ends as           *)
(* "(left~left and right~right) or (left~right and right~left)" does, the  *)
(* operand comparisons made from left to right, only as far as needed, and *)
(* one that raises ending the whole comparison by raising.  So             *)
(* compare(bin(op,L,R), bin(op,R,L)) is true for a commutative op unless   *)
(* comparing L with R raises, and for a non-commutative op it is true only *)
(* if L~R and R~L.                                                         *)
(***************************************************************************)
C4_BinaryComparison ==
  (ret.op = "compare" /\ ret.obj1 # ret.obj2 /\
   IsBinary(ret.obj1) /\ IsBinary(ret.obj2)) =>
    LET a == ret.obj1
        b == ret.obj2
        commutative == is_commutative(Attr(a, "operator").v)
        positional == AndThen(compare(LeftOf(a), LeftOf(b)),
                              compare(RightOf(a), RightOf(b)))
        crossed == AndThen(compare(LeftOf(a), RightOf(b)),
                           compare(RightOf(a), LeftOf(b)))
    IN /\ ~SameOperator(a, b) => ret.outcome = "False"
       /\ (SameOperator(a, b) /\ commutative) =>
            ret.outcome \in OrElse(positional, crossed)
       /\ (SameOperator(a, b) /\ ~commutative) =>
            /\ ret.outcome = "True" => "True" \in positional
            /\ positional = {"True"} => ret.outcome = "True"
       /\ (Swapped(a, b) /\ commutative) =>
            \/ ret.outcome = "True"
            \/ ret.outcome \in Raised \cap compare(LeftOf(a), RightOf(a))
       /\ (Swapped(a, b) /\ ~commutative /\ ret.outcome = "True") =>
            /\ "True" \in compare(LeftOf(a), RightOf(a))
            /\ "True" \in compare(RightOf(a), LeftOf(a))

\* operands of different structure, swapped under a commutative operator,
\* compared equal
C4_Witness ==
  /\ ret.op = "compare" /\ Swapped(ret.obj1, ret.obj2)
  /\ is_commutative(Attr(ret.obj1, "operator").v)
  /\ compare(LeftOf(ret.obj1), RightOf(ret.obj1)) = {"False"}
  /\ ret.outcome = "True"

\* C4 as stated: true exactly when one of the two pairings is equal
C4_ExactlyWhenPaired ==
  (ret.op = "compare" /\ ret.obj1 # ret.obj2 /\
   IsBinary(ret.obj1) /\ IsBinary(ret.obj2)) =>
    LET a == ret.obj1
        b == ret.obj2
        positional == Equal(LeftOf(a), LeftOf(b)) /\ Equal(RightOf(a), RightOf(b))
        crossed == Equal(LeftOf(a), RightOf(b)) /\ Equal(RightOf(a), LeftOf(b))
    IN /\ ~SameOperator(a, b) => ret.outcome = "False"
       /\ (SameOperator(a, b) /\ is_commutative(Attr(a, "operator").v)) =>
            (ret.outcome = "True" <=> (positional \/ crossed))
       /\ (SameOperator(a, b) /\ ~is_commutative(Attr(a, "operator").v)) =>
            (ret.outcome = "True" <=> positional)

(***************************************************************************)
(* C3. Swapped operands of a commutative operator, as the code has it.     *)
(* compare() reports bin(op,a,b) and bin(op,b,a) equal unless comparing a  *)
(* with b raises, but the keys of the two are not equal in general: the    *)
(* left operand is keyed before the right one.  Both generations are       *)
(* cacheable or neither is; the keys are equal when a and b are the same   *)
(* node, and, in an expression without unordered sets and unknown          *)
(* structures, when the two expressions are the same structure; and equal  *)
(* keys need a and b of one class with the same keyed string attributes.   *)
(***************************************************************************)
C3_SwappedOperands ==
  (ret.op = "generate_cache_key" /\ IsBinary(ret.node) /\
   is_commutative(Attr(ret.node, "operator").v)) =>
    \A m \in Nodes : Swapped(ret.node, m) =>
      LET a == LeftOf(ret.node)
          b == RightOf(ret.node)
          other == generate_cache_key(m)
          ti == traverse_internals(ClassOf(a))
      IN /\ other.none = ret.none
         /\ a = b => other.key = ret.key
         /\ (OrderedOnly(m) /\ SameStructure(ret.node, m)) =>
              other.key = ret.key
         /\ (~ret.none /\ other.key = ret.key) =>
              /\ ClassOf(a) = ClassOf(b)
              /\ \A i \in DOMAIN ti :
                   (/\ ti[i][2] = "dp_string"
                    /\ ~Attr(a, ti[i][1]).none
                    /\ Attr(a, ti[i][1]).v # "") =>
                     Attr(b, ti[i][1]) = Attr(a, ti[i][1])
         /\ compare(ret.node, m) \subseteq {"True"} \cup (Raised \cap compare(a, b))

\* operands of different names swapped: compared equal, keyed differently
C3_Witness ==
  /\ ret.op = "generate_cache_key" /\ IsBinary(ret.node) /\ ~ret.none
  /\ is_commutative(Attr(ret.node, "operator").v)
  /\ \E m \in Nodes :
       /\ Swapped(ret.node, m)
       /\ compare(ret.node, m) = {"True"}
       /\ generate_cache_key(m).key # ret.key

\* C3 as stated: the keys of the two are equal, as compare() reports them equal
C3_SwappedKeysEqual ==
  (ret.op = "generate_cache_key" /\ IsBinary(ret.node) /\
   is_commutative(Attr(ret.node, "operator").v)) =>
    \A m \in Nodes : Swapped(ret.node, m) =>
      /\ generate_cache_key(m).none = ret.none
      /\ generate_cache_key(m).key = ret.key

(************************ clause lists and sets ****************************)
IsClauseList(n) == ClassOf(n) = "clauselist"

IsCte(n) == ClassOf(n) = "cte"

\* t holds the elements of s, each as often, in some order
Permutation(s, t) ==
  /\ Len(s) = Len(t)
  /\ \E p \in [DOMAIN s -> DOMAIN s] :
       /\ \A i, j \in DOMAIN s : i # j => p[i] # p[j]
       /\ \A i \in DOMAIN s : t[i] = s[p[i]]

(***************************************************************************)
(* C5. Two clause lists with different operators compare false; with the   *)
(* same associative operator, a list compares true with every permutation  *)
(* of its operands; with the same operator, not associative, the lists     *)
(* compare true only if they are as long and equal position by position.   *)
(***************************************************************************)
C5_AssociativeList ==
  (ret.op = "compare" /\ ret.obj1 # ret.obj2 /\
   IsClauseList(ret.obj1) /\ IsClauseList(ret.obj2)) =>
    LET a == ret.obj1
        b == ret.obj2
        s == Attr(a, "clauses")
        t == Attr(b, "clauses")
        associative == is_associative(Attr(a, "operator").v)
    IN /\ ~SameOperator(a, b) => ret.outcome = "False"
       /\ (SameOperator(a, b) /\ associative /\ ~s.none /\ ~t.none
           /\ Permutation(s.v, t.v)) => ret.outcome = "True"
       /\ (SameOperator(a, b) /\ ~associative /\ ~s.none /\ ~t.none
           /\ ret.outcome = "True") =>
            /\ Len(s.v) = Len(t.v)
            /\ \A i \in DOMAIN s.v : "True" \in compare(s.v[i], t.v[i])

(***************************************************************************)
(* C6. Symmetry: when compare(a, b) is true, compare(b, a) is true.        *)
(***************************************************************************)
C6_Symmetry ==
  (ret.op = "compare" /\ ret.outcome = "True") =>
    "True" \in compare(ret.obj2, ret.obj1)

\* a one-to-one pairing of the members of s with the members of t, each pair
\* in the relation R
PerfectMatching(s, t, R(_, _)) ==
  /\ Cardinality(Range(s)) = Cardinality(Range(t))
  /\ \E f \in [Range(s) -> Range(t)] :
       /\ \A x, y \in Range(s) : x # y => f[x] # f[y]
       /\ \A x \in Range(s) : R(x, f[x])

MayBeEqual(x, y) == "True" \in compare(x, y)

(***************************************************************************)
(* C7. Two unordered sets compare true only if a perfect matching of their *)
(* members under the recursive comparison exists, and the scan never       *)
(* rejects two sets for which one exists.                                  *)
(***************************************************************************)
C7_PerfectMatching ==
  (ret.op = "compare" /\ ret.obj1 # ret.obj2 /\
   IsCte(ret.obj1) /\ IsCte(ret.obj2) /\
   ~Attr(ret.obj1, "restates").none /\ ~Attr(ret.obj2, "restates").none) =>
    LET s == Attr(ret.obj1, "restates").v
        t == Attr(ret.obj2, "restates").v
    IN /\ ret.outcome = "True" => PerfectMatching(s, t, MayBeEqual)
       /\ PerfectMatching(s, t, Equal) => ret.outcome # "False"

(***************************************************************************)
(* C9. Clone independence: after _copy_internals of a node, with nothing   *)
(* omitted and a clone function that returns a fresh object for every      *)
(* input, no child of the node is a child of the original, the node that   *)
(* still is what the copied node was before the call.                      *)
(***************************************************************************)
C9_CloneIndependence ==
  (ret.op = "copy_internals" /\ ret.fresh /\ ret.omit_attrs = {}) =>
    \A o \in Nodes \ {ret.node} :
      heap[o] = ret.was =>
        Range(get_children(ret.node)) \cap Range(get_children(o)) = {}

(***************************************************************************)
(* C8. Termination: compare(left, right) comes to an end by itself on      *)
(* every finite graph of nodes, cycles included: the nested comparators    *)
(* never nest without end, which is what exhausts the stack.  With the     *)
(* MaxNew = 2 binary nodes of SpecCyc only two ordered pairs of distinct   *)
(* binary nodes exist, and a nested comparator starts from the pair alone  *)
(* (empty stack, empty cache): RecursionLimit = 3 nested comparators, each *)
(* calling the next, repeat a pair, and so does every deeper one.          *)
(***************************************************************************)
C8_Termination ==
  ret.op = "compare" => ret.outcome # "RecursionError"

(***************************************************************************)
(* C11. Proxy mode only widens equality: a comparison that is true in the  *)
(* default mode is true with use_proxies=True as well, and with            *)
(* use_proxies=True a pair of columns is equal when the left one shares    *)
(* lineage with the right one or with a member of the right one's entry in *)
(* equivalents, or when the two hash identically.                          *)
(***************************************************************************)
C11_ProxyWidens ==
  (ret.op = "compare" /\ ret.kw.use_proxies) =>
    /\ compare(ret.obj1, ret.obj2) = {"True"} => ret.outcome = "True"
    /\ ( /\ IsColumn(ret.obj1) /\ IsColumn(ret.obj2)
         /\ \/ shares_lineage(ret.obj1, ret.obj2)
            \/ /\ ret.obj2 \in DOMAIN ret.kw.equivalents
               /\ \E oth \in ret.kw.equivalents[ret.obj2] :
                    shares_lineage(ret.obj1, oth)
            \/ hash(ret.obj1) = hash(ret.obj2) )
        => ret.outcome = "True"

(***************************************************************************)
(* C12. Schema-shape mismatch: when compare() is given two distinct nodes  *)
(* of the same visit name whose schemas differ (in length, in an attribute *)
(* name or in a traversal kind at some position), it returns False, never  *)
(* True and never an exception; also when the position where they differ   *)
(* holds _annotations on one side only and compare_annotations is not      *)
(* requested.                                                              *)
(***************************************************************************)
SchemasDiffer(a, b) ==
  traverse_internals(ClassOf(a)) # traverse_internals(ClassOf(b))

C12_ShapeMismatchIsFalse ==
  ( /\ ret.op = "compare"
    /\ ret.obj1 # ret.obj2
    /\ visit_name(ClassOf(ret.obj1)) = visit_name(ClassOf(ret.obj2))
    /\ SchemasDiffer(ret.obj1, ret.obj2) )
  => ret.outcome = "False"

(***************************************************************************)
(* C13. Unknown-structure attributes are never silently compared: when     *)
(* compare() is given two distinct nodes of one class whose schema has an  *)
(* attribute of the unknown-structure kind, and the loop over the schema   *)
(* reaches that attribute (the attribute before it does not end the        *)
(* comparison, no compare_ method accounts for it), the comparison raises, *)
(* whatever the two values are, None included.                             *)
(***************************************************************************)
\* the loop over the schema of two opaque nodes gets to the payload
ReachesPayload(a, b) ==
  /\ a # b
  /\ ClassOf(a) = "opaque"
  /\ ClassOf(b) = "opaque"
  /\ Attr(a, "element").none => Attr(b, "element").none

C13_UnknownStructureRaises ==
  (ret.op = "compare" /\ ReachesPayload(ret.obj1, ret.obj2))
  => ret.outcome \in Raised

(***************************************************************************)
(* C14. Child extraction for join-setup tuples: get_children yields, tuple *)
(* by tuple in the order of the sequence, the source when it is not None,  *)
(* then the target, then the on-condition when it is not None; a target or *)
(* an on-condition that is a string is not yielded, and the flags never.   *)
(***************************************************************************)
\* the slots of the tuples that may be yielded, in the order claimed
JoinSlots(element) ==
  Concat([i \in DOMAIN element |->
    << [slot |-> "from_", tv |-> element[i].from_],
       [slot |-> "target", tv |-> element[i].target],
       [slot |-> "onclause", tv |-> element[i].onclause] >>])

JoinSlotYielded(s) ==
  /\ s.tv.t # "str"
  /\ s.slot \in {"from_", "onclause"} => s.tv.t # "none"

C14_JoinChildren ==
  ( /\ ret.op = "get_children"
    /\ ClassOf(ret.node) = "joined"
    /\ ~Attr(ret.node, "_setup_joins").none )
  => LET yielded == SelectSeq(JoinSlots(Attr(ret.node, "_setup_joins").v),
                              JoinSlotYielded)
     IN ret.children = [i \in DOMAIN yielded |-> yielded[i].tv]

\* two tuples, the first with a source, a string target and a node as
\* on-condition, the second with a node as target
C14_Witness ==
  /\ ret.op = "get_children"
  /\ ClassOf(ret.node) = "joined"
  /\ ~Attr(ret.node, "_setup_joins").none
  /\ LET e == Attr(ret.node, "_setup_joins").v
     IN /\ Len(e) = 2
        /\ e[1].from_.t = "node" /\ e[1].target.t = "str"
        /\ e[1].onclause.t = "node" /\ e[1].onclause.n # e[1].from_.n
        /\ e[2].target.t = "node" /\ e[2].from_.t = "node"
        /\ e[2].target.n # e[2].from_.n
        /\ Len(ret.children) = 4

(***************************************************************************)
(* C17. Copying a join-setup tuple preserves legacy strings: after         *)
(* _copy_internals with a clone function that returns a fresh copy, in     *)
(* every 4-tuple a target or on-condition that is a string is the same     *)
(* string as before and clone was never called with it; a target,          *)
(* on-condition or source that is a node is what clone returned for it; a  *)
(* slot that is None stays None; the flags are the same.                   *)
(***************************************************************************)
C17_JoinCopyKeepsStrings ==
  ( /\ ret.op = "copy_internals"
    /\ ret.fresh
    /\ ret.omit_attrs = {}
    /\ ClassOf(ret.node) = "joined"
    /\ ~ret.was.at["_setup_joins"].none )
  => LET old == ret.was.at["_setup_joins"].v
         new == Attr(ret.node, "_setup_joins").v
         Copied(o, c) ==
           CASE o.t = "str" -> c = o /\ o \notin Range(ret.calls)
             [] o.t = "node" ->
                  /\ c.t = "node"
                  /\ c.n # o.n
                  /\ heap[c.n] = heap[o.n]
                  /\ o \in Range(ret.calls)
             [] OTHER -> c = o
     IN /\ DOMAIN new = DOMAIN old
        /\ \A i \in DOMAIN old :
             /\ Copied(old[i].target, new[i].target)
             /\ Copied(old[i].onclause, new[i].onclause)
             /\ Copied(old[i].from_, new[i].from_)
             /\ new[i].flags = old[i].flags

(***************************************************************************)
(* C15. Anon map monotonicity: over any sequence of anon_map[key], of the  *)
(* inlined insert of _gen_cache_key and of anon_map[NO_CACHE] = True on    *)
(* one map, each identity key holds the decimal string of the number of    *)
(* identity keys first used before it, distinct keys hold distinct ids, a  *)
(* key's id never changes once given, and the index is the number of       *)
(* identity keys in the map; the NO_CACHE entry takes no id.               *)
(***************************************************************************)
\* how many keys were first used before key
SeenBefore(seen, key) ==
  Cardinality({i \in DOMAIN seen : \E j \in DOMAIN seen : i < j /\ seen[j] = key})

AnonMapOrdered(r) ==
  /\ DOMAIN r.st.anon = Range(r.seen)
  /\ \A key \in DOMAIN r.st.anon :
       anon_map_value(r.st, key) = ToString(SeenBefore(r.seen, key))
  /\ \A k1, k2 \in DOMAIN r.st.anon :
       k1 # k2 => anon_map_value(r.st, k1) # anon_map_value(r.st, k2)
  /\ r.st.index = Cardinality(DOMAIN r.st.anon)

C15_AnonMapMonotone ==
  [][ /\ AnonMapOrdered(ret')
      /\ \A key \in DOMAIN ret.st.anon :
           /\ key \in DOMAIN ret'.st.anon
           /\ anon_map_value(ret'.st, key) = anon_map_value(ret.st, key) ]_vars

\* a key is looked up again after the flag was set and other keys came in
C15_Witness ==
  /\ ret.op = "getitem"
  /\ ret.st.nocache
  /\ Len(ret.seen) = 3
  /\ ret.key = ret.seen[1]
  /\ ret.st.index = 3

(***************************************************************************)
(* C16. The key fragment of an unordered set is order-independent: for a   *)
(* node whose unordered-set attribute holds structurally distinct          *)
(* children, the fragment _gen_cache_key produces for the attribute, from  *)
(* the anon map as it is when the attribute is visited, is the same for    *)
(* every order in which the set may iterate.                               *)
(***************************************************************************)
C16_SetFragmentAnyOrder ==
  ( /\ ret.op = "generate_cache_key"
    /\ ClassOf(ret.node) = "cte"
    /\ ~Attr(ret.node, "restates").none
    /\ \A x, y \in Range(Attr(ret.node, "restates").v) :
         x # y => ~SameStructure(x, y) )
  => LET obj == Attr(ret.node, "restates").v
         st == anon_map_inlined(anon_map, ret.node)
     IN \A other \in DistinctSeqs(Range(obj), Len(obj)) :
          Len(other) = Len(obj) =>
            CacheKey_visit_clauseelement_unordered_set("restates", other, st).frag
              = CacheKey_visit_clauseelement_unordered_set("restates", obj, st).frag

(***************************************************************************)
(* C18. Child extraction for ordered key/value pairs: get_children yields, *)
(* pair by pair in the order of the sequence, the value always and the key *)
(* only when the key is a node, the value before the key of its pair.      *)
(***************************************************************************)
C18_ValueBeforeKey ==
  ( /\ ret.op = "get_children"
    /\ ClassOf(ret.node) = "update"
    /\ ~Attr(ret.node, "_ordered_values").none )
  => LET element == Attr(ret.node, "_ordered_values").v
     IN ret.children =
          Concat([i \in DOMAIN element |->
            <<NodeTV(element[i].v)>>
            \o (IF element[i].k.t = "node" THEN <<element[i].k>> ELSE <<>>)])

(***************************************************************************)
(* C19. Visited-pairs discipline: within one comparator, a pair that has   *)
(* been appended to the stack is never appended again, so between two      *)
(* passes of the loop the stack holds each pair at most once and no pair   *)
(* that is in the cache of visited pairs.                                  *)
(***************************************************************************)
NoRepeat(q) == \A i, j \in DOMAIN q : i # j => q[i] # q[j]

C19_VisitedPairs ==
  ret.op = "comparing" =>
    /\ NoRepeat(ret.queued)
    /\ NoRepeat(ret.stack)
    /\ Range(ret.stack) \cap ret.cache = {}

(***************************************************************************)
(* C20. Copy frame condition: _copy_internals does not assign an attribute *)
(* named in omit_attrs, an attribute whose value is None, or an attribute  *)
(* for which the handler returned None, and each of these keeps its value; *)
(* clone is called only with what an attribute outside omit_attrs holds,   *)
(* and not at all when no such attribute holds anything; a node of a class *)
(* without _traverse_internals is left as it was.                          *)
(***************************************************************************)
\* the attributes of the schema of a node record, with their kinds
SchemaOf(node) ==
  IF has_traverse_internals(node.cls)
  THEN Range(traverse_internals(node.cls)) ELSE {}

Names(n) ==
  [i \in DOMAIN traverse_internals(ClassOf(n)) |->
     traverse_internals(ClassOf(n))[i][1]]

IsPrefix(p, q) == Len(p) <= Len(q) /\ SubSeq(q, 1, Len(p)) = p

\* the schema attributes not named in the collection S
NotNamed(n, S) == SelectSeq(Names(n), LAMBDA a : a \notin S)

\* the same without _annotations, unless compare_annotations is given
NotNamedKw(n, S, kw) ==
  SelectSeq(Names(n),
            LAMBDA a : a \notin S /\ (kw.compare_annotations \/ a # "_annotations"))

\* a pass of the loop from the comparator state before to the state after,
\* expected being the attributes the pass is to compare when it goes on
Protocol(before, after, expected) ==
  LET last == after.last
      meth == last.meth
  IN /\ meth.term = "False" =>
          /\ after.op = "compare" /\ after.outcome = "False"
          /\ last.seen = <<>> /\ last.push = <<>>
     /\ meth.term = "skip" =>
          /\ last.seen = <<>> /\ last.push = <<>>
          /\ after.op = "comparing" /\ after.stack = Tail(before.stack)
          /\ after.queued = before.queued
     /\ meth.term \in {"go", "none"} =>
          /\ meth.term = "none" => meth.compared = {}
          /\ IsPrefix(last.seen, expected)
          /\ after.op = "comparing" =>
                /\ last.seen = expected
                /\ after.stack = Tail(before.stack) \o last.push

IsPass(before, after) ==
  before.op = "comparing" /\ before.stack # <<>> /\ after # before

\* C21: in a pass of the loop of compare over a pair, a compare_ method that
\* returns COMPARE_FAILED makes compare return False at once; one that
\* returns SKIP_TRAVERSE has no attribute of the pair compared and no pair
\* appended, and the loop goes on with the next pair of the stack; one that
\* returns a collection of names has the schema attributes not named in it
\* compared, in schema order, up to the first that fails the comparison;
\* without a compare_ method the same holds with no name excepted. An
\* attribute named _annotations is left out of the comparison unless
\* compare_annotations is given.
C21_OverrideProtocol ==
  [][IsPass(ret, ret') =>
       Protocol(ret, ret', NotNamedKw(ret'.last.left, ret'.last.meth.compared,
                                      ret.kw))]_vars

\* compare_bindparam has returned ["callable", "value"] for two parameters
\* and the loop has compared their key and type and goes on
C21_Witness ==
  /\ ret.op = "comparing"
  /\ ret.last.left # ret.last.right
  /\ ClassOf(ret.last.left) = "bindparam"
  /\ ret.last.meth = [term |-> "go", compared |-> {"callable", "value"}]
  /\ ret.last.seen = <<"key", "type">>

\* C21 as stated: the attributes compared after a collection of names, or
\* without a compare_ method, are exactly the schema attributes not named
C21_ExactlyNotNamed ==
  [][IsPass(ret, ret') =>
       Protocol(ret, ret', NotNamed(ret'.last.left, ret'.last.meth.compared))]_vars

(******************** C22: nested comparisons are isolated *****************)
\* the pairs compare_inner is called for when the pair (left, right) of the
\* loop is of a kind compared by comparators of their own, in full
NestedOnly(left, right) ==
  /\ ClassOf(left) = ClassOf(right)
  /\ \/ ClassOf(left) \in {"cte", "statement"}
     \/ /\ ClassOf(left) = "clauselist"
        /\ ScalarEq(Attr(left, "operator"), Attr(right, "operator"))
        /\ is_associative(Attr(left, "operator").v)
     \/ /\ ClassOf(left) = "binary"
        /\ ScalarEq(Attr(left, "operator"), Attr(right, "operator"))
        /\ is_commutative(Attr(left, "operator").v)

\* a pass of the loop over such a pair, after which the loop goes on
NestedPass(before, after) ==
  /\ IsPass(before, after)
  /\ after.op = "comparing"
  /\ after.last.meth.term # "unasked"
  /\ NestedOnly(after.last.left, after.last.right)

NonEmpty(n) ==
  {i \in DOMAIN traverse_internals(ClassOf(n)) :
     LET a == traverse_internals(ClassOf(n))[i]
     IN ~Attr(n, a[1]).none /\ Truthy(a[2], Attr(n, a[1]).v)}

\* a and b are of one class and hold one value, a in one attribute and b in
\* another of the same kind, every other attribute of both being empty
SameValueElsewhere(a, b) ==
  /\ ClassOf(a) = ClassOf(b)
  /\ \E i, j \in DOMAIN traverse_internals(ClassOf(a)) :
       LET ti == traverse_internals(ClassOf(a))
       IN /\ i # j /\ ti[i][2] = ti[j][2]
          /\ NonEmpty(a) = {i} /\ NonEmpty(b) = {j}
          /\ Attr(a, ti[i][1]) = Attr(b, ti[j][1])

\* C23: the key of a node names every attribute whose value is neither None
\* nor empty, annotations apart, so that two nodes of one class that hold
\* the same value, the one in one attribute and the other in another
\* attribute of the same kind, have different keys.
C23_AttributesLabelled ==
  (ret.op = "generate_cache_key" /\ ~ret.none) =>
    /\ \A i \in NonEmpty(ret.node) :
         LET a == traverse_internals(ClassOf(ret.node))[i]
         IN a[2] # "dp_annotations_key" => a[1] \in Range(ret.key)
    /\ \A m \in Nodes :
         SameValueElsewhere(ret.node, m) => generate_cache_key(m).key # ret.key

(******************** C24: the schema of a type's cache keys ***************)
RECURSIVE NearestSchema(_, _)
\* the schema of the class body nearest to cls that declares one, its
\* _cache_key_traversal before its _traverse_internals; "None" without one
NearestSchema(types, cls) ==
  IF cls = 0 THEN "None"
  ELSE IF types[cls]._cache_key_traversal \in TypeSchemas
  THEN types[cls]._cache_key_traversal
  ELSE IF types[cls]._traverse_internals \in TypeSchemas
  THEN types[cls]._traverse_internals
  ELSE NearestSchema(types, types[cls].parent)

DeclaresNoSchema(body) ==
  /\ body._cache_key_traversal \notin TypeSchemas
  /\ body._traverse_internals \notin TypeSchemas

\* C24: the key generation of an object of a class that declares no schema
\* in its own body and does not set inherit_cache sets NO_CACHE in the
\* anon_map and returns None, whatever its base classes declare; the key of
\* an object of a class that sets inherit_cache is made from the nearest
\* schema its base classes let it see; either way the result is set on the
\* class, so that _generate_cache_attrs is never called a second time on it.
C24_SchemaResolution ==
  ret.op = "gen_cache_key" =>
    LET body == ret.types[ret.cls]
    IN /\ (DeclaresNoSchema(body) /\ ~body.inherit_cache) =>
            ret.none /\ ret.nocache
       /\ (body.inherit_cache /\ NearestSchema(ret.types, ret.cls) # "None") =>
            /\ ~ret.none /\ ~ret.raised
            /\ ret.key = KeyOfPlan(TypeSchema(NearestSchema(ret.types, ret.cls)),
                                   <<ret.key[1], ret.key[2]>>)
       /\ body._generated_cache_key_traversal # "absent"
       /\ ~ret.again

\* the _ordered_values of an update node
OrderedValues(n) == Attr(n, "_ordered_values").v

\* two keys of an assignment list are equal: structurally when both are
\* nodes, by == when both are plain
KeysEqual(lk, rk) ==
  IF has_clause_element(lk) /\ has_clause_element(rk)
  THEN "True" \in compare(lk.n, rk.n)
  ELSE lk = rk

\* the two lists have the same plain keys, position by position
SamePlainKeys(l, r) ==
  /\ Len(l) = Len(r)
  /\ \A i \in DOMAIN l : ~has_clause_element(l[i].k) /\ l[i].k = r[i].k

\* C25: ordered key/value-pair attributes are compared on keys and values:
\* compare() of two nodes carrying them is true only if the two sequences
\* have the same length and, at every position, the keys are equal
\* (structurally when they are nodes, by == when they are plain) and the
\* values are structurally equal; and it does not raise when the keys are
\* equal plain values
C25_OrderedValuesCompared ==
  (/\ ret.op = "compare"
   /\ ClassOf(ret.obj1) = "update" /\ ClassOf(ret.obj2) = "update") =>
    LET l == OrderedValues(ret.obj1)
        r == OrderedValues(ret.obj2)
    IN /\ ret.outcome = "True" =>
            /\ Len(l) = Len(r)
            /\ \A i \in DOMAIN l :
                 /\ KeysEqual(l[i].k, r[i].k)
                 /\ "True" \in compare(l[i].v, r[i].v)
       /\ SamePlainKeys(l, r) => ret.outcome \notin Raised

====
